---- MODULE Spec2Model ----
(***************************************************************************)
(* Sitemap Screenshot Visualizer: the URL tree builder and representative  *)
(* selector of the service worker, its capture loop, and the collapsed     *)
(* display tree of the report page with its expansion controller.          *)
(*                                                                         *)
(* A URL string is modelled by what `new URL(url)` makes of it: whether it *)
(* parses, the non-empty segments of its pathname, and whether the string  *)
(* ends in a slash (two strings with the same segments are different URLs).*)
(* A node path '/a/b/' is modelled by its segment sequence <<"a","b">>:    *)
(* '/' + segments joined by '/' + '/' is injective on sequences of         *)
(* non-empty slash-free segments, and appending 'seg/' to the string is    *)
(* Append on the sequence.                                                 *)
(***************************************************************************)
EXTENDS Integers, Sequences, FiniteSets, TLC

\* ------------------------------------------------------------------ bounds
\* URLs in the list given to buildUrlTree and selectRepresentativeUrls
MaxUrls == 3
\* top-level pages and pages below one of them in a reported site
MaxTop == 10
MaxSub == 6
\* URLs of one capture run on which the page renderer fails
MaxFailures == 1
\* single-node capture requests of one report page
MaxSingleRequests == 1
MaxMessages == 2
MaxReloads == 1
MaxChain == 2

\* ------------------------------------------------------------ program data
MinMaxPages == 10
MaxMaxPages == 50
DepthWeightBase == 5
\* collapseTree(..., 5), expandBatchSize: 5, collectUrlsForCapture(nodes, 10), maxDepth = 2
MaxChildren == 5
ExpandBatchSize == 5
MaxCaptureCount == 10
MaxCaptureDepth == 2
CrawlMaxDepth == 3

\* -------------------------------------------------------------------- URLs
Null == [kind |-> "null", segs |-> <<>>, slash |-> FALSE]
BadUrl == [kind |-> "bad", segs |-> <<>>, slash |-> FALSE]
Url(segs, slash) == [kind |-> "url", segs |-> segs, slash |-> slash]

\* options.url: the origin of the analysed site, 'https://site' (no path)
Origin == Url(<<>>, FALSE)
\* 'https://site/'
Homepage == Url(<<>>, TRUE)

\* The URL strings a sitemap of the site may list.
UrlUniverse ==
  { Homepage, Url(<<"a">>, FALSE), Url(<<"a">>, TRUE),
    Url(<<"a", "x">>, FALSE), Url(<<"a", "y">>, FALSE),
    Url(<<"b", "z">>, FALSE), BadUrl }

RECURSIVE SeqsUpTo(_, _)
SeqsUpTo(S, n) ==
  IF n = 0 THEN { <<>> }
  ELSE LET shorter == SeqsUpTo(S, n - 1)
       IN shorter \cup { Append(s, x) : s \in { t \in shorter : Len(t) = n - 1 }, x \in S }

UrlLists == SeqsUpTo(UrlUniverse, MaxUrls)
MaxPagesChoices == {0, 1, 3, MinMaxPages}

Range(seq) == { seq[i] : i \in 1..Len(seq) }
NoDuplicates(seq) == \A i, j \in 1..Len(seq) : seq[i] = seq[j] => i = j

Min(a, b) == IF a < b THEN a ELSE b
Max(a, b) == IF a > b THEN a ELSE b
\* Math.ceil(a / b) for b > 0
CeilDiv(a, b) == -((-a) \div b)

\* new URL(url) succeeds
Parses(u) == u.kind = "url"
\* path.split('/').filter(Boolean)
Segments(u) == u.segs
Depth(u) == Len(Segments(u))
\* segments[0] || '_root_'
Branch(u) == IF Len(Segments(u)) > 0 THEN Segments(u)[1] ELSE "_root_"

\* urls.map(parse).filter(Boolean)
ParsedUrls(us) == SelectSeq(us, Parses)

MaxDepthOf(us) ==
  IF Len(us) = 0 THEN 0
  ELSE CHOOSE d \in { Depth(us[i]) : i \in 1..Len(us) } :
         \A i \in 1..Len(us) : Depth(us[i]) <= d

RECURSIVE SortFrom(_, _, _)
SortFrom(us, d, top) ==
  IF d > top THEN <<>>
  ELSE LET AtD(u) == Depth(u) = d
       IN SelectSeq(us, AtD) \o SortFrom(us, d + 1, top)

\* .sort((a, b) => a.depth - b.depth): Array.prototype.sort is stable
SortByDepth(us) == SortFrom(us, 0, MaxDepthOf(us))

\* ------------------------------------------------------------- Tree Builder
\* A TreeNode object literal (buildUrlTree's root and node)
NewNode(name, url, path) ==
  [name |-> name, url |-> url, path |-> path, children |-> <<>>, screenshot |-> Null]

RECURSIVE HasPath(_, _)
\* nodeMap.has(p): nodeMap holds exactly the nodes put into the tree
HasPath(node, p) ==
  \/ node.path = p
  \/ \E i \in 1..Len(node.children) : HasPath(node.children[i], p)

RECURSIVE GetNode(_, _)
\* nodeMap.get(p), on a tree that has a node at p
GetNode(node, p) ==
  IF node.path = p THEN node
  ELSE LET i == CHOOSE j \in 1..Len(node.children) :
                  /\ HasPath(node.children[j], p)
                  /\ \A k \in 1..(j - 1) : ~HasPath(node.children[k], p)
       IN GetNode(node.children[i], p)

RECURSIVE PushChild(_, _, _)
\* parent.children.push(child), parent being the node nodeMap holds at parentPath
PushChild(node, parentPath, child) ==
  IF node.path = parentPath
  THEN [node EXCEPT !.children = Append(@, child)]
  ELSE IF \E j \in 1..Len(node.children) : HasPath(node.children[j], parentPath)
  THEN LET i == CHOOSE j \in 1..Len(node.children) :
                  /\ HasPath(node.children[j], parentPath)
                  /\ \A k \in 1..(j - 1) : ~HasPath(node.children[k], parentPath)
       IN [node EXCEPT !.children[i] = PushChild(@, parentPath, child)]
  ELSE node

RECURSIVE SetUrlAt(_, _, _)
\* exactNode.url = url
SetUrlAt(node, p, url) ==
  IF node.path = p
  THEN [node EXCEPT !.url = url]
  ELSE IF \E j \in 1..Len(node.children) : HasPath(node.children[j], p)
  THEN LET i == CHOOSE j \in 1..Len(node.children) :
                  /\ HasPath(node.children[j], p)
                  /\ \A k \in 1..(j - 1) : ~HasPath(node.children[k], p)
       IN [node EXCEPT !.children[i] = SetUrlAt(@, p, url)]
  ELSE node

\* a builder without the nodeMap.has test: a node is created at every step
CreateIfMissing_NoCheck(root, url, segs, i) ==
  PushChild(root, SubSeq(segs, 1, i - 1),
            NewNode(segs[i], IF i = Len(segs) THEN url ELSE Null, SubSeq(segs, 1, i)))

\* if (!nodeMap.has(newPath)) { ... parent.children.push(node); nodeMap.set(newPath, node) }
CreateIfMissing(root, url, segs, i) ==
  LET currentPath == SubSeq(segs, 1, i - 1)
      newPath == SubSeq(segs, 1, i)
      isLeaf == i = Len(segs)
  IN IF ~HasPath(root, newPath)
     THEN PushChild(root, currentPath,
                    NewNode(segs[i], IF isLeaf THEN url ELSE Null, newPath))
     ELSE root

RECURSIVE WalkSegments(_, _, _, _)
\* segments.forEach((segment, i) => ...), from segment i on
WalkSegments(root, url, segs, i) ==
  IF i > Len(segs) THEN root
  ELSE WalkSegments(CreateIfMissing(root, url, segs, i), url, segs, i + 1)

\* an iteration that assigns exactNode.url whether or not it is set
InsertUrl_Overwrite(root, url) ==
  SetUrlAt(WalkSegments(root, url, Segments(url), 1), Segments(url), url)

\* one iteration of sortedUrls.forEach
InsertUrl(root, url) ==
  LET walked == WalkSegments(root, url, Segments(url), 1)
      exactNode == GetNode(walked, Segments(url))
  IN IF exactNode.url = Null THEN SetUrlAt(walked, Segments(url), url) ELSE walked

RECURSIVE InsertAll(_, _, _)
\* sortedUrls.forEach, from the i-th URL on (the singleton set makes TLC
\* evaluate one iteration before it goes on to the next)
InsertAll(root, sorted, i) ==
  IF i > Len(sorted) THEN root
  ELSE CHOOSE r \in { InsertAll(t, sorted, i + 1) : t \in { InsertUrl(root, sorted[i]) } } :
         TRUE

\* a root created without the base URL
RootNode_NoUrl(base) == NewNode("site", Null, <<>>)

\* root = { name: hostname, url: baseUrl, path: '/', children: [], screenshot: null }
RootNode(base) == NewNode("site", base, <<>>)

buildUrlTree(us, base) == InsertAll(RootNode(base), SortByDepth(ParsedUrls(us)), 1)

\* ---------------------------------------------------- Representative Selector
RECURSIVE FirstIndexAtDepth0(_, _)
\* parsed.find(p => p.depth === 0 || p.path === '/'): its index, 0 when none
FirstIndexAtDepth0(parsed, i) ==
  IF i > Len(parsed) THEN 0
  ELSE IF Depth(parsed[i]) = 0 THEN i
  ELSE FirstIndexAtDepth0(parsed, i + 1)

\* an initial selection that does not add the base URL
InitialSelection_NoBase(parsed, base) ==
  IF FirstIndexAtDepth0(parsed, 1) > 0
  THEN << parsed[FirstIndexAtDepth0(parsed, 1)] >> ELSE <<>>

\* selected after "Always include homepage" and "add the baseUrl itself"
InitialSelection(parsed, base) ==
  LET h == FirstIndexAtDepth0(parsed, 1)
      withHome == IF h > 0 THEN << parsed[h] >> ELSE <<>>
  IN IF \E i \in 1..Len(withHome) : withHome[i] = base
     THEN withHome
     ELSE Append(withHome, base)

\* byDepth.get(d)
UrlsAtDepth(parsed, d) ==
  LET AtD(u) == Depth(u) = d
  IN SelectSeq(parsed, AtD)

RECURSIVE DepthsFrom(_, _, _)
DepthsFrom(parsed, d, top) ==
  IF d > top THEN <<>>
  ELSE (IF Len(UrlsAtDepth(parsed, d)) > 0 THEN << d >> ELSE <<>>)
         \o DepthsFrom(parsed, d + 1, top)

\* [...byDepth.keys()].sort((a, b) => a - b)
SortedDepths(parsed) ==
  IF Len(parsed) = 0 THEN <<>> ELSE DepthsFrom(parsed, 0, MaxDepthOf(parsed))

\* Math.max(1, 5 - d)
Weight(d) == Max(1, DepthWeightBase - d)

RECURSIVE SumWeights(_, _)
SumWeights(depths, i) ==
  IF i > Len(depths) THEN 0 ELSE Weight(depths[i]) + SumWeights(depths, i + 1)

\* quotas: Math.ceil((weights[i] / totalWeight) * remaining) per present depth
Quotas(parsed, remaining) ==
  LET depths == SortedDepths(parsed)
      totalWeight == SumWeights(depths, 1)
  IN [d \in { depths[i] : i \in 1..Len(depths) } |->
        CeilDiv(Weight(d) * remaining, totalWeight)]

RECURSIVE BranchesFrom(_, _, _)
BranchesFrom(atDepth, i, acc) ==
  IF i > Len(atDepth) THEN acc
  ELSE BranchesFrom(atDepth, i + 1,
         IF \E k \in 1..Len(acc) : acc[k] = Branch(atDepth[i])
         THEN acc ELSE Append(acc, Branch(atDepth[i])))

\* [...byBranch.keys()]: the branches of one depth in discovery order
Branches(atDepth) == BranchesFrom(atDepth, 1, <<>>)

\* byBranch.get(b)
BranchUrls(atDepth, b) ==
  LET InB(u) == Branch(u) = b
  IN SelectSeq(atDepth, InB)

\* a rotation that advances every second iteration only
NextBranch_Sticky(brs, idx) == brs[((idx \div 2) % Len(brs)) + 1]

\* branches[branchIndex % branches.length]
NextBranch(brs, idx) == brs[(idx % Len(brs)) + 1]

Includes(seq, x) == \E i \in 1..Len(seq) : seq[i] = x

\* a push without the selected.includes test
PushCandidate_NoCheck(sel, candidate) == Append(sel, candidate)

\* if (!selected.includes(candidate)) { selected.push(candidate); added++ }
PushCandidate(sel, candidate) ==
  IF ~Includes(sel, candidate) THEN Append(sel, candidate) ELSE sel

\* a return without the final slice
SliceTo_NoSlice(seq, n) == seq

\* selected.slice(0, maxPages), maxPages >= 0
SliceTo(seq, n) == SubSeq(seq, 1, Min(n, Len(seq)))

NoPointers == [b \in {} |-> 0]

\* The selector's locals as one record: where it is (at: "for" the head of the
\* depth loop, "while" the round-robin loop, "done" returned), selected, quotas,
\* the index of the depth in depths, added, branchIndex, branchPointers, and
\* the returned list.

\* lines 191-243: parse, homepage, base URL, quotas
SelectEnter(us, maxP, base) ==
  LET parsed == ParsedUrls(us)
      first == InitialSelection(parsed, base)
  IN [at |-> "for", selected |-> first,
      quotas |-> Quotas(parsed, maxP - Len(first)),
      depthIdx |-> 1, added |-> 0, branchIndex |-> 0,
      branchPointers |-> NoPointers, result |-> <<>>]

\* the depth the for loop is at, its urls and its branches
DepthAt(us, st) == SortedDepths(ParsedUrls(us))[st.depthIdx]
UrlsAt(us, st) == UrlsAtDepth(ParsedUrls(us), DepthAt(us, st))
BranchesAt(us, st) == Branches(UrlsAt(us, st))

\* for (const depth of depths) { if (selected.length >= maxPages) break; ...
ForContinues(us, maxP, st) ==
  /\ st.depthIdx <= Len(SortedDepths(ParsedUrls(us)))
  /\ Len(st.selected) < maxP

\* the head of one depth iteration: byBranch, branches, added, branchIndex, pointers
ForHead(us, maxP, st) ==
  [st EXCEPT !.at = "while", !.added = 0, !.branchIndex = 0,
             !.branchPointers = [b \in Range(BranchesAt(us, st)) |-> 0]]

\* a while loop that goes on past the quota of the depth
WhileContinues_NoQuota(us, maxP, st) == Len(st.selected) < maxP

\* while (added < quota && selected.length < maxPages)
WhileContinues(us, maxP, st) ==
  /\ st.added < st.quotas[DepthAt(us, st)]
  /\ Len(st.selected) < maxP

\* one iteration of the while loop, with the break on allExhausted
WhileBody(us, maxP, st) ==
  LET atDepth == UrlsAt(us, st)
      branch == NextBranch(BranchesAt(us, st), st.branchIndex)
      branchUrls == BranchUrls(atDepth, branch)
      pointer == st.branchPointers[branch]
      take == pointer < Len(branchUrls)
      pushed == IF take THEN PushCandidate(st.selected, branchUrls[pointer + 1])
                ELSE st.selected
      pointers == IF take THEN [st.branchPointers EXCEPT ![branch] = pointer + 1]
                  ELSE st.branchPointers
      allExhausted == \A b \in DOMAIN pointers :
                        pointers[b] >= Len(BranchUrls(atDepth, b))
  IN [st EXCEPT !.selected = pushed,
                !.added = @ + (Len(pushed) - Len(st.selected)),
                !.branchPointers = pointers,
                !.branchIndex = @ + 1,
                !.at = IF allExhausted THEN "for" ELSE "while",
                !.depthIdx = IF allExhausted THEN @ + 1 ELSE @]

\* the while condition fails: the next depth
WhileLeave(st) == [st EXCEPT !.at = "for", !.depthIdx = @ + 1]

\* return selected.slice(0, maxPages)
SelectReturn(maxP, st) ==
  [st EXCEPT !.at = "done", !.result = SliceTo(st.selected, maxP)]

SelectStep(us, maxP, st) ==
  IF st.at = "for"
  THEN IF ForContinues(us, maxP, st) THEN ForHead(us, maxP, st)
       ELSE SelectReturn(maxP, st)
  ELSE IF WhileContinues(us, maxP, st) THEN WhileBody(us, maxP, st)
       ELSE WhileLeave(st)

RECURSIVE SelectRun(_, _, _)
\* the loops run to the return (the singleton set makes TLC evaluate one step
\* before it goes on to the next)
SelectRun(us, maxP, st) ==
  IF st.at = "done" THEN st
  ELSE CHOOSE r \in { SelectRun(us, maxP, t) : t \in { SelectStep(us, maxP, st) } } : TRUE

selectRepresentativeUrls(us, maxP, base) ==
  SelectRun(us, maxP, SelectEnter(us, maxP, base)).result

\* not in the selector
SelectIdle ==
  [at |-> "idle", selected |-> <<>>, quotas |-> NoPointers, depthIdx |-> 0,
   added |-> 0, branchIndex |-> 0, branchPointers |-> NoPointers, result |-> <<>>]

RECURSIVE AllNodes(_)
\* the nodes reachable through children, in pre-order
AllNodes(node) ==
  LET RECURSIVE Over(_)
      Over(i) == IF i > Len(node.children) THEN <<>>
                 ELSE AllNodes(node.children[i]) \o Over(i + 1)
  IN << node >> \o Over(1)

\* attachScreenshotsToTree(node, screenshotMap) of the service worker
RECURSIVE attachScreenshotsToTree(_, _)
attachScreenshotsToTree(node, shots) ==
  [node EXCEPT
     !.screenshot = IF node.url # Null /\ node.url \in DOMAIN shots
                    THEN shots[node.url] ELSE @,
     !.children = [i \in 1..Len(node.children) |->
                     attachScreenshotsToTree(node.children[i], shots)]]

\* --------------------------------------------------------------- report page
\* the image the page renderer returns for a URL ('data:image/png;base64,...')
Shot(u) == [kind |-> "png", segs |-> u.segs, slash |-> u.slash]

\* d.data.isEllipsis: only ellipsis nodes carry the field
IsEllipsis(node) == "isEllipsis" \in DOMAIN node

\* the ellipsis node literal of collapseTree and performExpand; its label
\* '... +N more' shows Len(hiddenChildren)
EllipsisNode(parentPath, hidden) ==
  [name |-> "...", path |-> Append(parentPath, "_more"), url |-> Null,
   children |-> <<>>, screenshot |-> Null, isEllipsis |-> TRUE,
   hiddenChildren |-> hidden, parentPath |-> parentPath,
   expandBatchSize |-> ExpandBatchSize]

\* a collapse that keeps maxChildren children visible beside the ellipsis node
CollapseChildren_KeepMax(node, kids, maxC) ==
  IF Len(kids) > maxC
  THEN [node EXCEPT !.children =
          Append(SubSeq(kids, 1, maxC),
                 EllipsisNode(node.path, SubSeq(kids, maxC + 1, Len(kids))))]
  ELSE [node EXCEPT !.children = kids]

\* collapseTree's "If too many children, collapse" on the collapsed children
CollapseChildren(node, kids, maxC) ==
  IF Len(kids) > maxC
  THEN [node EXCEPT !.children =
          Append(SubSeq(kids, 1, maxC - 1),
                 EllipsisNode(node.path, SubSeq(kids, maxC, Len(kids))))]
  ELSE [node EXCEPT !.children = kids]

RECURSIVE collapseTree(_, _)
collapseTree(node, maxC) ==
  IF Len(node.children) = 0 THEN node
  ELSE CollapseChildren(node,
         [i \in 1..Len(node.children) |-> collapseTree(node.children[i], maxC)],
         maxC)

\* findNodeByPath found nothing (null)
NotFound == [notFound |-> TRUE]

RECURSIVE findNodeByPath(_, _)
RECURSIVE FindInList(_, _, _)
\* for (const child of node.children) { found = findNodeByPath(child, ...) }
FindInList(nodes, i, targetPath) ==
  IF i > Len(nodes) THEN NotFound
  ELSE LET found == findNodeByPath(nodes[i], targetPath)
       IN IF found # NotFound THEN found ELSE FindInList(nodes, i + 1, targetPath)

findNodeByPath(node, targetPath) ==
  IF node.path = targetPath THEN node
  ELSE FindInList(node.children, 1, targetPath)

RECURSIVE ReplaceFound(_, _, _)
\* the tree after the node findNodeByPath returns was mutated into newNode
ReplaceFound(node, targetPath, newNode) ==
  IF node.path = targetPath THEN newNode
  ELSE LET hits == { i \in 1..Len(node.children) :
                       findNodeByPath(node.children[i], targetPath) # NotFound }
       IN IF hits = {} THEN node
          ELSE LET i == CHOOSE j \in hits : \A k \in hits : j <= k
               IN [node EXCEPT !.children[i] = ReplaceFound(@, targetPath, newNode)]

\* an attachScreenshotsToNodes that does not descend into node.children
attachScreenshotsToNodes_Shallow(nodes, shots) ==
  [i \in 1..Len(nodes) |->
     [nodes[i] EXCEPT
        !.screenshot = IF /\ nodes[i].url # Null
                          /\ nodes[i].url \in DOMAIN shots
                          /\ shots[nodes[i].url] # Null
                       THEN shots[nodes[i].url] ELSE @]]

RECURSIVE attachScreenshotsToNodes(_, _)
\* attachScreenshotsToNodes(nodes, screenshotMap) of the report page
attachScreenshotsToNodes(nodes, shots) ==
  [i \in 1..Len(nodes) |->
     [nodes[i] EXCEPT
        !.screenshot = IF /\ nodes[i].url # Null
                          /\ nodes[i].url \in DOMAIN shots
                          /\ shots[nodes[i].url] # Null
                       THEN shots[nodes[i].url] ELSE @,
        !.children = attachScreenshotsToNodes(nodes[i].children, shots)]]

RECURSIVE CollectFrom(_, _, _, _, _)
\* collect(nodeList, currentDepth) from the i-th node on, urls collected so far
CollectFrom(nodeList, i, currentDepth, collected, maxCount) ==
  IF currentDepth > MaxCaptureDepth \/ Len(collected) >= maxCount
       \/ i > Len(nodeList)
  THEN collected
  ELSE LET node == nodeList[i]
           own == IF node.url # Null /\ ~IsEllipsis(node)
                  THEN Append(collected, node.url) ELSE collected
           below == IF Len(node.children) > 0
                    THEN CollectFrom(node.children, 1, currentDepth + 1, own, maxCount)
                    ELSE own
       IN CollectFrom(nodeList, i + 1, currentDepth, below, maxCount)

\* a collection that stops one URL late
collectUrlsForCapture_Late(nodes, maxCount) ==
  CollectFrom(nodes, 1, 0, <<>>, maxCount + 1)

collectUrlsForCapture(nodes, maxCount) == CollectFrom(nodes, 1, 0, <<>>, maxCount)

\* parentNode.children.findIndex(c => c.isEllipsis); 0 stands for -1
EllipsisIndex(kids) ==
  IF \E i \in 1..Len(kids) : IsEllipsis(kids[i])
  THEN CHOOSE i \in 1..Len(kids) :
         IsEllipsis(kids[i]) /\ \A k \in 1..(i - 1) : ~IsEllipsis(kids[k])
  ELSE 0

\* an expansion that leaves the expanded ellipsis node among the children
RemoveAt_Keep(seq, i) == seq

\* parentNode.children.splice(ellipsisIndex, 1)
RemoveAt(seq, i) ==
  IF i = 0 THEN seq ELSE SubSeq(seq, 1, i - 1) \o SubSeq(seq, i + 1, Len(seq))

\* an expansion that pushes no ellipsis node for the remaining nodes
ExpandedChildren_NoRest(kids, parentPath, newNodes, remainingNodes, shots) ==
  LET spliced == RemoveAt(kids, EllipsisIndex(kids))
      attached == attachScreenshotsToNodes(newNodes, shots)
      revealed == [i \in 1..Len(attached) |-> collapseTree(attached[i], MaxChildren)]
  IN spliced \o revealed

\* the children of the owning node after performExpand
ExpandedChildren(kids, parentPath, newNodes, remainingNodes, shots) ==
  LET spliced == RemoveAt(kids, EllipsisIndex(kids))
      attached == attachScreenshotsToNodes(newNodes, shots)
      revealed == [i \in 1..Len(attached) |-> collapseTree(attached[i], MaxChildren)]
  IN IF Len(remainingNodes) > 0
     THEN Append(spliced \o revealed, EllipsisNode(parentPath, remainingNodes))
     ELSE spliced \o revealed

\* performExpand(ellipsisD3Node, newNodes, remainingNodes, screenshotMap) on the
\* display tree
performExpand(display, ellipsisData, newNodes, remainingNodes, shots) ==
  LET parentPath == ellipsisData.parentPath
      parentNode == findNodeByPath(display, parentPath)
  IN IF parentNode = NotFound THEN display
     ELSE ReplaceFound(display, parentPath,
            [parentNode EXCEPT !.children =
               ExpandedChildren(@, parentPath, newNodes, remainingNodes, shots)])

\* --------------------------------------------------------------------- state
VARIABLES
  \* startAnalysis steps 2 and 3: the inputs, the tree under construction, the
  \* index into sortedUrls, and the selector's locals
  urls, baseUrl, maxPages, tree, buildIdx, sel,
  \* the report page: its globals, the captureMore messages it sent that the
  \* service worker has not handled yet, the messages sent to its tab that it
  \* has not handled yet; how many single-node requests it sent, how many
  \* times performExpand ran, and on how many URLs the page renderer failed
  currentReportData, currentTreeData, isExpanding, pendingExpand,
  requests, responses, singleRequests, expansions, failures,
  \* how many times the report page was loaded again in its tab
  reloads,
  \* the URLs on which the page renderer failed when they were last captured
  failedUrls,
  \* the service worker's cancel flag, and a capture run: its caller, the
  \* capture method, its locals, and the calls it made in order
  shouldCancel, cap,
  \* chrome.storage.local: the value stored under 'reportData'
  storage,
  \* the service worker: its globals isRunning and runningState; the instance
  \* of startAnalysis or captureMoreScreenshots that is running, and how many
  \* instances are; a crawl; the sendComplete calls that have not finished;
  \* what the worker did to the outside, in order (messages sent, dataset
  \* writes, report tabs opened); how many messages it received
  isRunning, runningState, run, activeRuns, crawl, tasks, effects, received,
  \* the popup: whether it is open, its isRunning, how many of the worker's
  \* messages were sent before it was opened or have reached its listener,
  \* and whether it sent a start that no complete or error has followed
  popup

coreVars == << urls, baseUrl, maxPages, tree, buildIdx, sel >>

reportVars == << currentReportData, currentTreeData, isExpanding, pendingExpand,
                 requests, responses, singleRequests, expansions, failures,
                 reloads, failedUrls >>

captureVars == << shouldCancel, cap >>

swVars == << isRunning, runningState, run, activeRuns, crawl, tasks, effects, received >>

workerVars == << storage, swVars >>

vars == << coreVars, reportVars, captureVars, workerVars, popup >>

parsedUrls == ParsedUrls(urls)
sortedUrls == SortByDepth(parsedUrls)
depths == SortedDepths(parsedUrls)

\* pendingExpand = null
NoPending == [type |-> "none"]

\* no capture run
CaptureIdle ==
  /\ shouldCancel = FALSE
  /\ cap = [at |-> "idle", caller |-> "none", method |-> "none", urls |-> << >>,
            i |-> 0, results |-> << >>, trace |-> << >>, outcomes |-> << >>,
            tab |-> "none", window |-> "none", thrown |-> FALSE]

\* nothing stored under 'reportData'
NoRun ==
  [kind |-> "none", at |-> "idle", id |-> 0, urls |-> << >>, usedCrawler |-> FALSE,
   parentPath |-> << >>, sourceTabId |-> 0, data |-> NoPending]

\* no crawl
NoCrawl ==
  [at |-> "idle", queue |-> << >>, visited |-> {}, urls |-> << >>, current |-> 0,
   tab |-> "none", thrown |-> FALSE]

\* the service worker after its script ran: lines 7-17
SwIdle ==
  /\ isRunning = FALSE
  /\ runningState = [active |-> FALSE, current |-> 0, total |-> 0]
  /\ run = NoRun
  /\ activeRuns = 0
  /\ crawl = NoCrawl
  /\ tasks = << >>
  /\ effects = << >>
  /\ received = 0

WorkerIdle == storage = NoPending /\ SwIdle

\* the popup before the toolbar button is clicked
NoPopup == [open |-> FALSE, isRunning |-> FALSE, seen |-> 0, unanswered |-> FALSE]
PopupClosed == popup = NoPopup

\* no run of startAnalysis steps 2 and 3
CoreIdle ==
  /\ urls = <<>>
  /\ baseUrl = Origin
  /\ maxPages = 0
  /\ tree = RootNode(Origin)
  /\ buildIdx = 1
  /\ sel = SelectIdle

\* no report page
ReportIdle ==
  /\ currentReportData = NoPending
  /\ currentTreeData = NoPending
  /\ isExpanding = FALSE
  /\ pendingExpand = NoPending
  /\ requests = <<>>
  /\ responses = <<>>
  /\ singleRequests = 0
  /\ expansions = 0
  /\ failures = 0
  /\ reloads = 0
  /\ failedUrls = {}

CoreInit ==
  /\ urls \in UrlLists
  /\ baseUrl = Origin
  /\ maxPages \in MaxPagesChoices
  /\ tree = RootNode(baseUrl)
  /\ buildIdx = 1
  /\ sel = SelectIdle
  /\ ReportIdle
  /\ CaptureIdle
  /\ WorkerIdle
  /\ PopupClosed

\* buildUrlTree: one iteration of sortedUrls.forEach
BuildStep ==
  /\ sel.at = "idle"
  /\ buildIdx <= Len(sortedUrls)
  /\ tree' = InsertUrl(tree, sortedUrls[buildIdx])
  /\ buildIdx' = buildIdx + 1
  /\ UNCHANGED << popup, urls, baseUrl, maxPages, sel, reportVars, captureVars, workerVars >>

\* buildUrlTree returns root; selectRepresentativeUrls up to the quotas
SelectStart ==
  /\ sel.at = "idle"
  /\ buildIdx > Len(sortedUrls)
  /\ sel' = SelectEnter(urls, maxPages, baseUrl)
  /\ UNCHANGED << popup, urls, baseUrl, maxPages, tree, buildIdx, reportVars, captureVars, workerVars >>

\* for (const depth of depths): the head of one iteration, up to the while loop
ForDepth ==
  /\ sel.at = "for"
  /\ ForContinues(urls, maxPages, sel)
  /\ sel' = ForHead(urls, maxPages, sel)
  /\ UNCHANGED << popup, urls, baseUrl, maxPages, tree, buildIdx, reportVars, captureVars, workerVars >>

\* while (added < quota && selected.length < maxPages): one iteration
WhileIter ==
  /\ sel.at = "while"
  /\ WhileContinues(urls, maxPages, sel)
  /\ sel' = WhileBody(urls, maxPages, sel)
  /\ UNCHANGED << popup, urls, baseUrl, maxPages, tree, buildIdx, reportVars, captureVars, workerVars >>

\* the while condition fails: on to the next depth
WhileExit ==
  /\ sel.at = "while"
  /\ ~WhileContinues(urls, maxPages, sel)
  /\ sel' = WhileLeave(sel)
  /\ UNCHANGED << popup, urls, baseUrl, maxPages, tree, buildIdx, reportVars, captureVars, workerVars >>

\* the for loop ends (depths done, or the break on selected.length >= maxPages)
Return ==
  /\ sel.at = "for"
  /\ ~ForContinues(urls, maxPages, sel)
  /\ sel' = SelectReturn(maxPages, sel)
  /\ UNCHANGED << popup, urls, baseUrl, maxPages, tree, buildIdx, reportVars, captureVars, workerVars >>

Next == BuildStep \/ SelectStart \/ ForDepth \/ WhileIter \/ WhileExit \/ Return

Spec == CoreInit /\ [][Next]_vars

\* ------------------------------------------------------- the report page
\* segment names of the sitemaps; "_more" is the page whose path '/_more/' is
\* also the path collapseTree gives the root's ellipsis node
TopNames == << "a", "b", "c", "d", "_more", "f", "g", "h", "i", "j", "k", "l" >>
SubNames == << "s", "t", "u", "v", "w", "x", "y", "z" >>

\* a sitemap: the homepage, n top-level pages, m pages below the p-th of them
SiteUrls(n, p, m) ==
  << Homepage >> \o [i \in 1..n |-> Url(<< TopNames[i] >>, FALSE)]
                \o [j \in 1..m |-> Url(<< TopNames[p], SubNames[j] >>, FALSE)]

Sites ==
  { SiteUrls(n, p, m) : n \in {MaxChildren, MaxChildren + 1, MaxTop},
                        p \in {1, MaxChildren}, m \in {0, MaxSub} }

\* the URLs of a capture run on which the page renderer may fail: at most
\* budget of them
FailureSets(us, budget) ==
  { F \in SUBSET Range(us) : Cardinality(F) <= budget }

\* the results of a capture run over us in which the page renderer failed on
\* the URLs in failed: { url, screenshot } or { url, screenshot: null, error }
ResultsOf(us, failed) ==
  [i \in 1..Len(us) |->
     IF us[i] \in failed
     THEN [url |-> us[i], screenshot |-> Null, error |-> "capture failed"]
     ELSE [url |-> us[i], screenshot |-> Shot(us[i])]]

\* new Map(screenshots.map(s => [s.url, s.screenshot])) / the screenshotMap
\* object: a later entry for a url replaces an earlier one
ShotMap(shots) ==
  [u \in { shots[i].url : i \in 1..Len(shots) } |->
     LET last == CHOOSE i \in 1..Len(shots) :
                   /\ shots[i].url = u
                   /\ \A k \in (i + 1)..Len(shots) : shots[k].url # u
     IN shots[last].screenshot]

\* a forEach that takes every result, with or without screenshot
WithScreenshot_All(results) == results

\* the results of a capture run that carry a screenshot: if (screenshot)
WithScreenshot(results) ==
  LET Truthy(r) == r.screenshot # Null IN SelectSeq(results, Truthy)

\* the dataset startAnalysis hands to sendComplete: lines 81-111
DatasetOf(us, base, results) ==
  LET shots == WithScreenshot(results)
  IN [tree |-> attachScreenshotsToTree(buildUrlTree(us, base), ShotMap(results)),
      baseUrl |-> base,
      capturedUrlSet |-> [i \in 1..Len(shots) |-> shots[i].url],
      screenshotMap |-> ShotMap(shots)]

\* the dataset of a run over the sitemap us with options.url the origin, the
\* page renderer having failed on the URLs in failed
ReportDataOf(us, failed) ==
  DatasetOf(us, Origin,
            ResultsOf(selectRepresentativeUrls(us, MinMaxPages, Origin), failed))

\* options.maxPages of the analyses of whole sites; 0 is below the number of
\* URLs selected before the depth loop
QuotaPages == { 0, MinMaxPages, MinMaxPages + 2 }

\* startAnalysis steps 2 and 3 on the sitemap of a whole site
QuotaInit ==
  /\ urls \in Sites
  /\ baseUrl = Origin
  /\ maxPages \in QuotaPages
  /\ tree = RootNode(baseUrl)
  /\ buildIdx = 1
  /\ sel = SelectIdle
  /\ ReportIdle
  /\ CaptureIdle
  /\ WorkerIdle
  /\ PopupClosed

\* buildUrlTree and selectRepresentativeUrls on whole sites
SpecQuota == QuotaInit /\ [][Next]_vars

\* renderTree: currentTreeData = collapseTree(JSON.parse(JSON.stringify(data)), 5)
renderTree(data) == collapseTree(data, MaxChildren)

\* a renderTree without the copy: collapseTree replaces node.children of the
\* object it is given, so the argument becomes the collapsed tree
RenderedSource_NoCopy(data) == collapseTree(data, MaxChildren)

\* the object passed to renderTree, after the call: collapseTree ran on
\* JSON.parse(JSON.stringify(data)), which shares no node with data
RenderedSource(data) == data

\* the page after DOMContentLoaded, storage holding the dataset of a run in
\* which the page renderer failed on no URL
ReportInit ==
  /\ CoreIdle
  /\ CaptureIdle
  /\ \E us \in Sites :
       /\ storage = ReportDataOf(us, {})
       /\ SwIdle
       /\ PopupClosed
       /\ currentReportData = [storage EXCEPT !.tree = RenderedSource(@)]
       /\ currentTreeData = renderTree(storage.tree)
  /\ failures = 0
  /\ isExpanding = FALSE
  /\ pendingExpand = NoPending
  /\ requests = <<>>
  /\ responses = <<>>
  /\ singleRequests = 0
  /\ expansions = 0
  /\ reloads = 0
  /\ failedUrls = {}

\* a filter that takes no URL for captured
AlreadyCaptured_Never(url) == FALSE

\* new Set(currentReportData.capturedUrlSet || []).has(url)
AlreadyCaptured(url) == Includes(currentReportData.capturedUrlSet, url)

\* a click handler without the isExpanding guard
ExpandClickBlocked_Never == FALSE

\* if (isExpanding) return;  of handleExpandClick and handleSingleNodeCapture
ExpandClickBlocked == isExpanding
SingleCaptureBlocked == isExpanding

\* chrome.runtime.sendMessage({ type: 'captureMore', urls, parentPath, options })
CaptureMore(us, parentPath) == [type |-> "captureMore", urls |-> us, parentPath |-> parentPath]

\* a click on an ellipsis node: handleNodeClick, handleExpandClick
ExpandClick(e) ==
  LET hiddenChildren == e.hiddenChildren
      batchSize == e.expandBatchSize
      nodesToExpand == SubSeq(hiddenChildren, 1, Min(batchSize, Len(hiddenChildren)))
      remainingNodes == SubSeq(hiddenChildren, batchSize + 1, Len(hiddenChildren))
      urlsToCapture == collectUrlsForCapture(nodesToExpand, MaxCaptureCount)
      IsNew(u) == ~AlreadyCaptured(u)
      newUrls == SelectSeq(urlsToCapture, IsNew)
  IN IF ExpandClickBlocked \/ Len(hiddenChildren) = 0
     THEN UNCHANGED vars
     ELSE IF Len(newUrls) = 0
     THEN /\ currentTreeData' =
               performExpand(currentTreeData, e, nodesToExpand, remainingNodes, ShotMap(<< >>))
          /\ expansions' = expansions + 1
          /\ isExpanding' = FALSE
          /\ UNCHANGED << popup, coreVars, captureVars, reloads, failedUrls, workerVars, currentReportData, pendingExpand, requests,
                          responses, singleRequests, failures >>
     ELSE /\ isExpanding' = TRUE
          /\ pendingExpand' = [type |-> "expand", ellipsis |-> e,
                               nodesToExpand |-> nodesToExpand,
                               remainingNodes |-> remainingNodes,
                               parentPath |-> e.parentPath]
          /\ requests' = Append(requests, CaptureMore(newUrls, e.parentPath))
          /\ UNCHANGED << popup, coreVars, captureVars, reloads, failedUrls, workerVars, currentReportData, currentTreeData, responses,
                          singleRequests, expansions, failures >>

\* a click on a node without screenshot: handleNodeClick, handleSingleNodeCapture
SingleNodeClick(n) ==
  IF SingleCaptureBlocked
  THEN UNCHANGED vars
  ELSE IF /\ AlreadyCaptured(n.url)
          /\ n.url \in DOMAIN currentReportData.screenshotMap
          /\ currentReportData.screenshotMap[n.url] # Null
  THEN /\ currentTreeData' =
            ReplaceFound(currentTreeData, n.path,
                         [n EXCEPT !.screenshot = currentReportData.screenshotMap[n.url]])
       /\ UNCHANGED << popup, coreVars, captureVars, reloads, failedUrls, workerVars, currentReportData, isExpanding, pendingExpand,
                       requests, responses, singleRequests, expansions, failures >>
  ELSE /\ singleRequests < MaxSingleRequests
       /\ isExpanding' = TRUE
       /\ pendingExpand' = [type |-> "single", nodePath |-> n.path]
       /\ requests' = Append(requests, CaptureMore(<< n.url >>, n.path))
       /\ singleRequests' = singleRequests + 1
       /\ UNCHANGED << popup, coreVars, captureVars, reloads, failedUrls, workerVars, currentReportData, currentTreeData, responses,
                       expansions, failures >>

\* the nodes the tree renderer shows (d3.hierarchy follows children)
ShownNodes == Range(AllNodes(currentTreeData))
ShownEllipses == { n \in ShownNodes : IsEllipsis(n) }
\* d.data.url && !d.data.screenshot, not an ellipsis
ShownPlaceholders ==
  { n \in ShownNodes : ~IsEllipsis(n) /\ n.url # Null /\ n.screenshot = Null }

\* a merge that pushes the url of every screenshot without the includes test
PushNew_NoCheck(captured, shots, i) ==
  captured \o [k \in 1..(Len(shots) - i + 1) |-> shots[i + k - 1].url]

RECURSIVE PushNew(_, _, _)
\* if (!capturedUrlSet.includes(url)) capturedUrlSet.push(url), for each screenshot
PushNew(captured, shots, i) ==
  IF i > Len(shots) THEN captured
  ELSE CHOOSE r \in { PushNew(IF Includes(c, shots[i].url) THEN c
                                ELSE Append(c, shots[i].url), shots, i + 1) :
                        c \in { captured } } : TRUE

\* a merge that leaves screenshotMap alone
MergeShots_Skip(map, shots) == map

\* screenshotMap[url] = screenshot, for each screenshot
MergeShots(map, shots) ==
  [u \in DOMAIN map \cup DOMAIN ShotMap(shots) |->
     IF u \in DOMAIN ShotMap(shots) THEN ShotMap(shots)[u] ELSE map[u]]

\* captureMoreScreenshots: the update of reportData read from storage
SwMergedReportData(data, results) ==
  LET merged == [data EXCEPT
                   !.screenshotMap = MergeShots(@, WithScreenshot(results)),
                   !.capturedUrlSet = PushNew(@, WithScreenshot(results), 1)]
  IN [merged EXCEPT !.tree = attachScreenshotsToTree(@, merged.screenshotMap)]

\* a captureMoreComplete that carries every result
SentScreenshots_All(results) == results

\* screenshots: screenshots.filter(s => s.screenshot)
SentScreenshots(results) == WithScreenshot(results)

\* the service worker handles a captureMore message and the capture run ends:
\* captureMoreComplete with screenshots.filter(s => s.screenshot)
SwCaptureMoreComplete(failed) ==
  /\ Len(requests) > 0
  /\ failures + Cardinality(failed) <= MaxFailures
  /\ failures' = failures + Cardinality(failed)
  /\ responses' = Append(responses,
                         [type |-> "captureMoreComplete",
                          screenshots |->
                            SentScreenshots(ResultsOf(Head(requests).urls, failed)),
                          parentPath |-> Head(requests).parentPath])
  /\ requests' = Tail(requests)
  /\ storage' = IF storage # NoPending
                THEN SwMergedReportData(storage, ResultsOf(Head(requests).urls, failed))
                ELSE storage
  /\ failedUrls' = (failedUrls \ Range(Head(requests).urls)) \cup failed
  /\ UNCHANGED << popup, coreVars, captureVars, reloads, swVars, currentReportData, currentTreeData,
                  isExpanding, pendingExpand, singleRequests, expansions >>

\* a catch that sends nothing to the tab
ErrorReply_Silent(req) == << >>

\* sendToTab(sourceTabId, { type: 'captureMoreError', error, parentPath })
ErrorReply(req) == << [type |-> "captureMoreError", parentPath |-> req.parentPath] >>

\* the service worker answers a captureMore message with captureMoreError
\* (another capture in progress, or the run threw)
SwCaptureMoreError ==
  /\ Len(requests) > 0
  /\ responses' = responses \o ErrorReply(Head(requests))
  /\ requests' = Tail(requests)
  /\ UNCHANGED << popup, coreVars, captureVars, reloads, failedUrls, workerVars, currentReportData, currentTreeData, isExpanding,
                  pendingExpand, singleRequests, expansions, failures >>

\* handleExpandComplete lines 580-590
MergedReportData(data, shots) ==
  [data EXCEPT !.capturedUrlSet = PushNew(@, shots, 1),
               !.screenshotMap = MergeShots(@, WithScreenshot(shots))]

\* a handleSingleNodeComplete that renders the full tree again
handleSingleNodeComplete_Rerender(display, nodePath, shots) ==
  renderTree(attachScreenshotsToTree(currentReportData.tree, shots))

\* handleSingleNodeComplete(screenshotMap) on the display tree
handleSingleNodeComplete(display, nodePath, shots) ==
  LET nodeInTree == findNodeByPath(display, nodePath)
  IN IF /\ nodeInTree # NotFound
        /\ nodeInTree.url # Null
        /\ nodeInTree.url \in DOMAIN shots
        /\ shots[nodeInTree.url] # Null
     THEN ReplaceFound(display, nodePath,
                       [nodeInTree EXCEPT !.screenshot = shots[nodeInTree.url]])
     ELSE display

\* the page handles a captureMoreComplete message: handleExpandComplete
HandleExpandComplete ==
  /\ Len(responses) > 0
  /\ Head(responses).type = "captureMoreComplete"
  /\ responses' = Tail(responses)
  /\ LET msg == Head(responses)
         shots == ShotMap(msg.screenshots)
     IN IF pendingExpand = NoPending
        THEN /\ isExpanding' = FALSE
             /\ UNCHANGED << currentReportData, currentTreeData, pendingExpand,
                             expansions >>
        ELSE /\ currentReportData' = MergedReportData(currentReportData, msg.screenshots)
             /\ isExpanding' = FALSE
             /\ pendingExpand' = NoPending
             /\ IF pendingExpand.type = "single"
                THEN /\ currentTreeData' =
                          handleSingleNodeComplete(currentTreeData,
                                                   pendingExpand.nodePath, shots)
                     /\ UNCHANGED expansions
                ELSE IF pendingExpand.parentPath # msg.parentPath
                THEN UNCHANGED << currentTreeData, expansions >>
                ELSE /\ currentTreeData' =
                          performExpand(currentTreeData, pendingExpand.ellipsis,
                                        pendingExpand.nodesToExpand,
                                        pendingExpand.remainingNodes, shots)
                     /\ expansions' = expansions + 1
  /\ UNCHANGED << popup, coreVars, captureVars, reloads, failedUrls, workerVars, requests, singleRequests, failures >>

\* a handleExpandError that leaves isExpanding set
HandleExpandError_KeepsFlag ==
  /\ Len(responses) > 0
  /\ Head(responses).type = "captureMoreError"
  /\ responses' = Tail(responses)
  /\ pendingExpand' = NoPending
  /\ UNCHANGED << popup, coreVars, captureVars, reloads, failedUrls, workerVars,
                  currentReportData, currentTreeData, isExpanding, requests,
                  singleRequests, expansions, failures >>

\* the page handles a captureMoreError message: handleExpandError
HandleExpandError ==
  /\ Len(responses) > 0
  /\ Head(responses).type = "captureMoreError"
  /\ responses' = Tail(responses)
  /\ pendingExpand' = NoPending
  /\ isExpanding' = FALSE
  /\ UNCHANGED << popup, coreVars, captureVars, reloads, failedUrls, workerVars, currentReportData, currentTreeData, requests,
                  singleRequests, expansions, failures >>

\* the urls of the captureMore message the service worker handles next
CaptureUrlsOfHead == IF Len(requests) > 0 THEN Range(Head(requests).urls) ELSE {}

ReportNext ==
  \/ \E e \in ShownEllipses : ExpandClick(e)
  \/ \E n \in ShownPlaceholders : SingleNodeClick(n)
  \/ \E failed \in FailureSets(IF Len(requests) > 0 THEN Head(requests).urls ELSE << >>,
                                 MaxFailures) : SwCaptureMoreComplete(failed)
  \/ SwCaptureMoreError
  \/ HandleExpandComplete
  \/ HandleExpandError

SpecReport == ReportInit /\ [][ReportNext]_vars

\* ------------------------------------------------- the report page reloaded
\* the site whose display tree shows two ellipsis nodes, under the root and
\* under /a
ReloadSite == SiteUrls(MaxChildren + 1, 1, MaxSub)

ReloadInit ==
  /\ ReportInit
  /\ storage = ReportDataOf(ReloadSite, {})

\* the report page is loaded again in its tab: DOMContentLoaded reads the
\* dataset from storage and renders it; the globals start as declared, and
\* the messages in flight to and from the tab stay in flight
Reload ==
  /\ reloads < MaxReloads
  /\ storage # NoPending
  /\ reloads' = reloads + 1
  /\ currentReportData' = [storage EXCEPT !.tree = RenderedSource(@)]
  /\ currentTreeData' = renderTree(storage.tree)
  /\ isExpanding' = FALSE
  /\ pendingExpand' = NoPending
  /\ UNCHANGED << popup, coreVars, captureVars, workerVars, requests, responses,
                  singleRequests, expansions, failures, failedUrls >>

\* the service worker answers the captureMore message at the head
SwAnswers ==
  \/ \E failed \in FailureSets(IF Len(requests) > 0 THEN Head(requests).urls
                                ELSE << >>, MaxFailures) :
       SwCaptureMoreComplete(failed)
  \/ SwCaptureMoreError

\* the page's listener handles the message at the head
PageHandles == HandleExpandComplete \/ HandleExpandError

ReloadNext == ReportNext \/ Reload

SpecReload == ReloadInit /\ [][ReloadNext]_vars

\* the sites of one level: the root's ellipsis node hides up to MaxTop - 4
\* pages
FairSites == { SiteUrls(n, 1, 0) : n \in {MaxChildren, MaxChildren + 1, MaxTop} }

FairInit ==
  /\ ReportInit
  /\ \E us \in FairSites : storage = ReportDataOf(us, {})

\* the page after DOMContentLoaded, storage holding the dataset of a run in
\* which the page renderer failed on at most MaxFailures of the selected URLs
RetryInit ==
  /\ CoreIdle
  /\ CaptureIdle
  /\ SwIdle
  /\ PopupClosed
  /\ \E us \in FairSites :
       \E F \in FailureSets(selectRepresentativeUrls(us, MinMaxPages, Origin),
                            MaxFailures) :
         /\ storage = ReportDataOf(us, F)
         /\ failedUrls = F
         /\ failures = Cardinality(F)
  /\ currentReportData = [storage EXCEPT !.tree = RenderedSource(@)]
  /\ currentTreeData = renderTree(storage.tree)
  /\ isExpanding = FALSE
  /\ pendingExpand = NoPending
  /\ requests = <<>>
  /\ responses = <<>>
  /\ singleRequests = 0
  /\ expansions = 0
  /\ reloads = 0

\* the report page on the dataset of an analysis with capture failures
SpecRetry == RetryInit /\ [][ReportNext]_vars

\* a sitemap with MaxChildren + 1 top-level pages: k pages below the page
\* /_more, m pages below the page /f, and below /f/s a chain of d pages
\* /f/s/t, /f/s/t/u; the root's ellipsis node hides /_more and /f
DeepSiteUrls(k, m, d) ==
  SiteUrls(MaxChildren + 1, MaxChildren + 1, m)
    \o [j \in 1..k |-> Url(<< TopNames[MaxChildren], SubNames[j] >>, FALSE)]
    \o [j \in 1..d |->
          Url(<< TopNames[MaxChildren + 1] >> \o SubSeq(SubNames, 1, j + 1), FALSE)]

DeepSites ==
  { DeepSiteUrls(k, m, d) : k \in {0, MaxChildren}, m \in {2, MaxSub},
                            d \in 0..MaxChain }

\* the page after DOMContentLoaded on the dataset of a deep site
CollectInit ==
  /\ CoreIdle
  /\ CaptureIdle
  /\ SwIdle
  /\ PopupClosed
  /\ \E us \in DeepSites : storage = ReportDataOf(us, {})
  /\ currentReportData = [storage EXCEPT !.tree = RenderedSource(@)]
  /\ currentTreeData = renderTree(storage.tree)
  /\ failures = 0
  /\ isExpanding = FALSE
  /\ pendingExpand = NoPending
  /\ requests = <<>>
  /\ responses = <<>>
  /\ singleRequests = 0
  /\ expansions = 0
  /\ reloads = 0
  /\ failedUrls = {}

\* the report page on the dataset of a deep site
SpecCollect == CollectInit /\ [][ReportNext]_vars

\* the page without reloads: every promise of a capture run settles, and a
\* message sent to the tab is delivered to the page's listener
SpecReportFair ==
  /\ FairInit
  /\ [][ReportNext]_vars
  /\ WF_vars(SwAnswers)
  /\ WF_vars(PageHandles)

\* C18: a captureMoreComplete whose parentPath differs from the pending
\* expansion's is dropped: display tree and the page's dataset copy
\* (capturedUrlSet, screenshotMap) unchanged, isExpanding and pendingExpand
\* cleared
C18_MismatchDropped ==
  [][(/\ Len(responses) > 0
      /\ Head(responses).type = "captureMoreComplete"
      /\ pendingExpand # NoPending
      /\ pendingExpand.type = "expand"
      /\ pendingExpand.parentPath # Head(responses).parentPath
      /\ HandleExpandComplete) =>
       /\ currentTreeData' = currentTreeData
       /\ currentReportData.capturedUrlSet' = currentReportData.capturedUrlSet
       /\ currentReportData.screenshotMap' = currentReportData.screenshotMap
       /\ isExpanding' = FALSE
       /\ pendingExpand' = NoPending]_vars

\* C19: every expansion or single-node request that sets isExpanding
\* returns to Idle: the service worker answers each captureMore message
\* with one terminal message and handling it clears isExpanding and
\* pendingExpand
C19_ReturnsToIdle ==
  (isExpanding /\ pendingExpand # NoPending)
    ~> (~isExpanding /\ pendingExpand = NoPending)

\* a single-node request set isExpanding, was answered, and the page is Idle
C19_Witness ==
  /\ ~isExpanding
  /\ pendingExpand = NoPending
  /\ singleRequests = 1
  /\ requests = << >>
  /\ responses = << >>

\* --------------------------------------------------------- a capture run
\* the URL lists of a capture run: selected URLs, or the URLs of revealed nodes
CaptureUrls ==
  { Homepage, Url(<<"a">>, FALSE), Url(<<"a", "x">>, FALSE), Url(<<"b", "z">>, FALSE) }
CaptureLists == { us \in SeqsUpTo(CaptureUrls, MaxUrls) : NoDuplicates(us) }

\* startAnalysis calls captureScreenshots(selectedUrls, options);
\* captureMoreScreenshots calls captureScreenshotsDebugger(urls, options, onProgress)
Callers == { "startAnalysis", "captureMore" }

\* what rejects inside the inner try: Page.navigate / chrome.tabs.update, or
\* Page.captureScreenshot / captureVisibleTab
RenderErrors == { "navigate failed", "capture failed" }

\* captureScreenshotsDebugger / captureScreenshotsWindow entered: results = []
CaptureEnter(us, caller) ==
  [at |-> "setup", caller |-> caller, method |-> "debugger", urls |-> us,
   i |-> 0, results |-> << >>, trace |-> << >>, outcomes |-> << >>,
   tab |-> "none", window |-> "none", thrown |-> FALSE]

\* if (onProgress) ... else sendProgress(...)
ViaSendProgress(c) == ~(c.caller = "captureMore" /\ c.method = "debugger")

\* sendProgress: runningState.current = current; runningState.total = total
ProgressState(rs, current, total) == [rs EXCEPT !.current = current, !.total = total]

\* onProgress(i + 1, urls.length, url) or sendProgress(i + 1, urls.length, url)
EmitProgress(c) ==
  [c EXCEPT !.trace =
     Append(@, [ev |-> "progress",
                via |-> IF ViaSendProgress(c) THEN "sendProgress" ELSE "onProgress",
                current |-> c.i + 1, total |-> Len(c.urls), url |-> c.urls[c.i + 1]])]

\* the page renderer is invoked: Page.navigate / chrome.tabs.update with url
Navigate(c) ==
  [c EXCEPT !.trace =
     Append(@, [ev |-> "navigate", via |-> c.method,
                current |-> c.i + 1, total |-> Len(c.urls), url |-> c.urls[c.i + 1]]),
            !.at = "render"]

\* a loop body that invokes the page renderer before it reports progress
LoopBody_ProgressLate(c) == EmitProgress(Navigate(c))

\* the loop body from the cancel check up to the first await
LoopBody(c) == Navigate(EmitProgress(c))

\* results.push(r); the for loop's i++
Record(c, r, outcome) ==
  [c EXCEPT !.results = Append(@, r),
            !.trace = Append(@, [ev |-> "result", via |-> c.method,
                                 current |-> c.i + 1, total |-> Len(c.urls),
                                 url |-> r.url]),
            !.outcomes = Append(@, outcome),
            !.i = @ + 1,
            !.at = "loop"]

\* results.push({ url, screenshot })
RecordScreenshot(c) ==
  Record(c, [url |-> c.urls[c.i + 1], screenshot |-> Shot(c.urls[c.i + 1])], "ok")

\* a run whose inner catch gives up the batch
RecordFailure_Abort(c, message) ==
  [c EXCEPT !.outcomes = Append(@, message), !.at = "finally"]

\* catch (error): results.push({ url, screenshot: null, error: error.message })
RecordFailure(c, message) ==
  Record(c, [url |-> c.urls[c.i + 1], screenshot |-> Null, error |-> message], message)

\* a run starts: both callers set shouldCancel = false first
CaptureInit ==
  /\ CoreIdle
  /\ ReportIdle
  /\ WorkerIdle
  /\ PopupClosed
  /\ shouldCancel = FALSE
  /\ \E us \in CaptureLists : \E caller \in Callers : cap = CaptureEnter(us, caller)

\* an error leaves captureScreenshotsDebugger or captureScreenshotsWindow:
\* captureScreenshots catches the debugger method's and calls the window
\* method; captureMoreScreenshots and the window method's caller get the error
Throw(c) ==
  IF c.method = "debugger" /\ c.caller = "startAnalysis"
  THEN [c EXCEPT !.method = "window", !.at = "setup", !.results = << >>,
                 !.i = 0, !.thrown = FALSE]
  ELSE [c EXCEPT !.at = "threw", !.thrown = FALSE]

\* chrome.tabs.create resolves with the hidden tab; chrome.windows.create
\* resolves with the capture window
ContextCreated ==
  /\ cap.at = "setup"
  /\ cap' = IF cap.method = "debugger"
            THEN [cap EXCEPT !.tab = "open", !.at = "attach"]
            ELSE [cap EXCEPT !.window = "open", !.at = "loop"]
  /\ UNCHANGED << popup, coreVars, reportVars, workerVars, shouldCancel >>

\* chrome.tabs.create or chrome.windows.create rejects
SetupFails ==
  /\ cap.at = "setup"
  /\ cap' = Throw(cap)
  /\ UNCHANGED << popup, coreVars, reportVars, workerVars, shouldCancel >>

\* chrome.debugger.attach resolves
AttachDone ==
  /\ cap.at = "attach"
  /\ cap' = [cap EXCEPT !.tab = "attached", !.at = "metrics"]
  /\ UNCHANGED << popup, coreVars, reportVars, workerVars, shouldCancel >>

\* chrome.debugger.attach rejects: the await stands before the try block
AttachFails ==
  /\ cap.at = "attach"
  /\ cap' = Throw(cap)
  /\ UNCHANGED << popup, coreVars, reportVars, workerVars, shouldCancel >>

\* Emulation.setDeviceMetricsOverride resolves: on to the for loop
SetupDone ==
  /\ cap.at = "metrics"
  /\ cap' = [cap EXCEPT !.at = "loop"]
  /\ UNCHANGED << popup, coreVars, reportVars, workerVars, shouldCancel >>

\* Emulation.setDeviceMetricsOverride rejects inside the try block
MetricsFails ==
  /\ cap.at = "metrics"
  /\ cap' = [cap EXCEPT !.at = "finally", !.thrown = TRUE]
  /\ UNCHANGED << popup, coreVars, reportVars, workerVars, shouldCancel >>

\* a loop head that never sees the cancel flag
CancelSeen_Never == FALSE

\* if (shouldCancel) break
CancelSeen == shouldCancel

\* i < urls.length and shouldCancel is false: progress, then the renderer
LoopIter ==
  /\ cap.at = "loop"
  /\ cap.i < Len(cap.urls)
  /\ ~CancelSeen
  /\ cap' = LoopBody(cap)
  /\ runningState' = IF ViaSendProgress(cap)
                     THEN ProgressState(runningState, cap.i + 1, Len(cap.urls))
                     ELSE runningState
  /\ UNCHANGED << popup, coreVars, reportVars, shouldCancel, storage, isRunning, run,
                  activeRuns, crawl, tasks, effects, received >>

\* the loop ends: i = urls.length, or if (shouldCancel) break
LoopExit ==
  /\ cap.at = "loop"
  /\ (cap.i >= Len(cap.urls) \/ CancelSeen)
  /\ cap' = [cap EXCEPT !.at = "finally"]
  /\ UNCHANGED << popup, coreVars, reportVars, workerVars, shouldCancel >>

\* the page loads (or the load timeout passes) and the screenshot is taken
RenderDone ==
  /\ cap.at = "render"
  /\ cap' = RecordScreenshot(cap)
  /\ UNCHANGED << popup, coreVars, reportVars, workerVars, shouldCancel >>

\* a call of the inner try rejects
RenderFails(message) ==
  /\ cap.at = "render"
  /\ cap' = RecordFailure(cap, message)
  /\ UNCHANGED << popup, coreVars, reportVars, workerVars, shouldCancel >>

\* finally: chrome.debugger.detach and chrome.tabs.remove, or
\* chrome.windows.remove
Released(c) ==
  IF c.method = "debugger" THEN [c EXCEPT !.tab = "closed"]
  ELSE [c EXCEPT !.window = "closed"]

\* the finally block, then return results or the error of the try block
Finally ==
  /\ cap.at = "finally"
  /\ cap' = IF cap.thrown THEN Throw(Released(cap))
            ELSE [Released(cap) EXCEPT !.at = "returned"]
  /\ UNCHANGED << popup, coreVars, reportVars, workerVars, shouldCancel >>

\* a 'cancel' message arrives while the run awaits
Cancel ==
  /\ cap.at \in { "setup", "attach", "metrics", "loop", "render", "finally" }
  /\ ~shouldCancel
  /\ shouldCancel' = TRUE
  /\ runningState' = [runningState EXCEPT !.active = FALSE]
  /\ UNCHANGED << popup, coreVars, reportVars, cap, storage, isRunning, run, activeRuns,
                  crawl, tasks, effects, received >>

CaptureNext ==
  \/ ContextCreated
  \/ SetupFails
  \/ AttachDone
  \/ AttachFails
  \/ SetupDone
  \/ MetricsFails
  \/ LoopIter
  \/ LoopExit
  \/ RenderDone
  \/ \E message \in RenderErrors : RenderFails(message)
  \/ Finally
  \/ Cancel

SpecCapture == CaptureInit /\ [][CaptureNext]_vars

\* the progress events of the run, in order
ProgressEvents ==
  LET IsProgress(e) == e.ev = "progress" IN SelectSeq(cap.trace, IsProgress)

\* positions in the trace of the events of one kind for the j-th URL
TracePositions(ev, j) ==
  { p \in 1..Len(cap.trace) : cap.trace[p].ev = ev /\ cap.trace[p].current = j }

\* ------------------------------------------------------ the service worker
\* what fetchSitemap resolves with
WorkerSitemaps == { << >>, << Homepage, Url(<<"a">>, FALSE) >> }

\* what extractLinks returns for a crawled page (same-domain links)
CrawlLinkLists ==
  { << >>, << Homepage, Url(<<"a">>, TRUE), Url(<<"a">>, FALSE) >> }

\* the captureMore messages a report page sends: urls and parentPath
MoreRequests ==
  { [urls |-> << Url(<<"a", "x">>, FALSE), Url(<<"b", "z">>, FALSE) >>,
     parentPath |-> << >>, sourceTabId |-> 7],
    [urls |-> << Url(<<"a", "x">>, FALSE) >>,
     parentPath |-> <<"a">>, sourceTabId |-> 8] }

\* an entry of effects: what run id did, or which message reached it; to is
\* the tab of sendToTab, message the text of sendError
Effect(type, id) == [type |-> type, id |-> id, to |-> 0, message |-> ""]
ErrorEffect(id, message) == [Effect("error", id) EXCEPT !.message = message]
TabEffect(type, id, tab) == [Effect(type, id) EXCEPT !.to = tab]

\* the capture run's record once its function has returned or thrown
CapIdle ==
  [at |-> "idle", caller |-> "none", method |-> "none", urls |-> << >>,
   i |-> 0, results |-> << >>, trace |-> << >>, outcomes |-> << >>,
   tab |-> "none", window |-> "none", thrown |-> FALSE]

\* a start handler without the isRunning guard
StartRejected_Never == FALSE

\* startAnalysis: if (isRunning) return
StartRejected == isRunning

\* a captureMore handler without the isRunning guard
CaptureMoreRejected_Never == FALSE

\* captureMoreScreenshots: if (isRunning) { ... return }
CaptureMoreRejected == isRunning

\* a list of no URLs that is not seen as empty
NoUrls_Never(us) == FALSE

\* if (urls.length === 0) throw
NoUrls(us) == Len(us) = 0

\* a run that goes on to the report after a cancel
CancelledAfterCapture_Never == FALSE

\* if (shouldCancel) throw new Error('Analysis cancelled')
CancelledAfterCapture == shouldCancel

\* a startAnalysis that leaves the cancel flag as it finds it
StartReceived_KeepsFlag ==
  /\ received < MaxMessages
  /\ received' = received + 1
  /\ IF StartRejected
     THEN UNCHANGED << isRunning, shouldCancel, runningState, run, activeRuns >>
     ELSE /\ isRunning' = TRUE
          /\ UNCHANGED shouldCancel
          /\ runningState' = [active |-> TRUE, current |-> 0, total |-> 0]
          /\ run' = [NoRun EXCEPT !.kind = "analysis", !.at = "fetch",
                                  !.id = received + 1]
          /\ activeRuns' = activeRuns + 1
  /\ UNCHANGED << coreVars, reportVars, cap, storage, crawl, tasks, effects >>

\* startAnalysis up to the await of fetchSitemap
StartReceived ==
  /\ received < MaxMessages
  /\ received' = received + 1
  /\ IF StartRejected
     THEN UNCHANGED << isRunning, shouldCancel, runningState, run, activeRuns >>
     ELSE /\ isRunning' = TRUE
          /\ shouldCancel' = FALSE
          /\ runningState' = [active |-> TRUE, current |-> 0, total |-> 0]
          /\ run' = [NoRun EXCEPT !.kind = "analysis", !.at = "fetch",
                                  !.id = received + 1]
          /\ activeRuns' = activeRuns + 1
  /\ UNCHANGED << coreVars, reportVars, cap, storage, crawl, tasks, effects >>

\* a 'start' message
StartMessage == StartReceived /\ UNCHANGED popup

\* the listener's 'cancel' branch
CancelReceived ==
  /\ received < MaxMessages
  /\ received' = received + 1
  /\ shouldCancel' = TRUE
  /\ runningState' = [runningState EXCEPT !.active = FALSE]
  /\ effects' = IF run.kind = "analysis"
                THEN Append(effects, Effect("cancelled", run.id)) ELSE effects
  /\ UNCHANGED << coreVars, reportVars, cap, storage, isRunning, run, activeRuns,
                  crawl, tasks >>

\* a 'cancel' message
CancelMessage == CancelReceived /\ UNCHANGED popup

\* startAnalysis: catch (error) { sendError } finally { isRunning = false;
\* runningState.active = false }
AnalysisFails(message) ==
  /\ effects' = Append(effects, ErrorEffect(run.id, message))
  /\ isRunning' = FALSE
  /\ runningState' = [runningState EXCEPT !.active = FALSE]
  /\ run' = NoRun
  /\ activeRuns' = activeRuns - 1

\* startAnalysis from the urls to the await of captureScreenshots
UrlsObtained(us, usedCrawler) ==
  IF NoUrls(us)
  THEN /\ AnalysisFails(IF usedCrawler THEN "No pages found while crawling."
                                       ELSE "No URLs found in sitemap.")
       /\ UNCHANGED cap
  ELSE /\ cap' = CaptureEnter(selectRepresentativeUrls(us, MinMaxPages, Origin),
                              "startAnalysis")
       /\ run' = [run EXCEPT !.at = "capture", !.urls = us,
                             !.usedCrawler = usedCrawler]
       /\ runningState' = ProgressState(runningState, 0, 0)
       /\ UNCHANGED << isRunning, activeRuns, effects >>

\* fetchSitemap resolves
SitemapFetched(us) ==
  /\ run.kind = "analysis"
  /\ run.at = "fetch"
  /\ UrlsObtained(us, FALSE)
  /\ UNCHANGED << popup, coreVars, reportVars, shouldCancel, storage, crawl, tasks, received >>

\* crawlFromHomepage entered: lines 661-664
CrawlEnter(base) ==
  [at |-> "setup", queue |-> << [url |-> base, depth |-> 0] >>, visited |-> {},
   urls |-> << >>, current |-> 0, tab |-> "none", thrown |-> FALSE]

\* fetchSitemap rejects: the crawler is called
SitemapFails ==
  /\ run.kind = "analysis"
  /\ run.at = "fetch"
  /\ run' = [run EXCEPT !.at = "crawl", !.usedCrawler = TRUE]
  /\ runningState' = ProgressState(runningState, 0, 0)
  /\ crawl' = CrawlEnter(Origin)
  /\ UNCHANGED << popup, coreVars, reportVars, captureVars, storage, isRunning, activeRuns,
                  tasks, effects, received >>

\* a crawler that pushes the URL as it was queued
NormalizeCrawled_Raw(u) == u

\* parsed.hash = ''; parsed.href.replace(/\/$/, '')
NormalizeCrawled(u) == [u EXCEPT !.slash = FALSE]

\* crawlFromHomepage throws into startAnalysis' catch
CrawlThrows ==
  /\ AnalysisFails("crawl failed")
  /\ crawl' = NoCrawl
  /\ UNCHANGED << popup, coreVars, reportVars, captureVars, storage, tasks, received >>

\* what no step of the crawler touches
CrawlFrame ==
  UNCHANGED << popup, coreVars, reportVars, captureVars, storage, isRunning, run,
               activeRuns, tasks, effects, received >>

\* chrome.tabs.create resolves
CrawlTabCreated ==
  /\ crawl.at = "setup"
  /\ crawl' = [crawl EXCEPT !.at = "attach", !.tab = "open"]
  /\ UNCHANGED runningState
  /\ CrawlFrame

\* chrome.tabs.create rejects
CrawlSetupFails ==
  /\ crawl.at = "setup"
  /\ CrawlThrows

\* chrome.debugger.attach resolves
CrawlAttachDone ==
  /\ crawl.at = "attach"
  /\ crawl' = [crawl EXCEPT !.at = "enable", !.tab = "attached"]
  /\ UNCHANGED runningState
  /\ CrawlFrame

\* chrome.debugger.attach rejects, before the try
CrawlAttachFails ==
  /\ crawl.at = "attach"
  /\ CrawlThrows

\* Page.enable resolves
CrawlEnableDone ==
  /\ crawl.at = "enable"
  /\ crawl' = [crawl EXCEPT !.at = "loop"]
  /\ UNCHANGED runningState
  /\ CrawlFrame

\* Page.enable rejects, inside the try
CrawlEnableFails ==
  /\ crawl.at = "enable"
  /\ crawl' = [crawl EXCEPT !.at = "finally", !.thrown = TRUE]
  /\ UNCHANGED runningState
  /\ CrawlFrame

\* while (queue.length > 0 && urls.length < maxPages) and the cancel check
CrawlGoesOn ==
  /\ Len(crawl.queue) > 0
  /\ Len(crawl.urls) < MinMaxPages
  /\ ~shouldCancel

\* one turn of the loop up to a continue or the await of Page.navigate
CrawlIter ==
  /\ crawl.at = "loop"
  /\ CrawlGoesOn
  /\ LET item == Head(crawl.queue)
         rest == Tail(crawl.queue)
         normalizedUrl == NormalizeCrawled(item.url)
     IN IF item.url \in crawl.visited \/ item.depth > CrawlMaxDepth
        THEN /\ crawl' = [crawl EXCEPT !.queue = rest]
             /\ UNCHANGED runningState
        ELSE IF normalizedUrl \in Range(crawl.urls)
        THEN /\ crawl' = [crawl EXCEPT !.queue = rest,
                                       !.visited = @ \cup {item.url}]
             /\ UNCHANGED runningState
        ELSE /\ crawl' = [crawl EXCEPT !.queue = rest,
                                       !.visited = @ \cup {item.url},
                                       !.urls = Append(@, normalizedUrl),
                                       !.current = item.depth,
                                       !.at = "page"]
             /\ runningState' = ProgressState(runningState, Len(crawl.urls) + 1,
                                              MinMaxPages)
  /\ CrawlFrame

\* the loop ends
CrawlExit ==
  /\ crawl.at = "loop"
  /\ ~CrawlGoesOn
  /\ crawl' = [crawl EXCEPT !.at = "finally"]
  /\ UNCHANGED runningState
  /\ CrawlFrame

\* the links pushed on the queue: lines 707-711
NewLinks(links, visited, depth) ==
  SelectSeq([i \in 1..Len(links) |-> [url |-> links[i], depth |-> depth + 1]],
            LAMBDA q : q.url \notin visited /\ depth + 1 <= CrawlMaxDepth)

\* the page is loaded and its links extracted
CrawlPageDone(links) ==
  /\ crawl.at = "page"
  /\ crawl' = [crawl EXCEPT !.at = "loop",
                            !.queue = @ \o NewLinks(links, crawl.visited,
                                                    crawl.current)]
  /\ UNCHANGED runningState
  /\ CrawlFrame

\* navigation or extraction fails: the inner catch
CrawlPageFails ==
  /\ crawl.at = "page"
  /\ crawl' = [crawl EXCEPT !.at = "loop"]
  /\ UNCHANGED runningState
  /\ CrawlFrame

\* finally { detach; remove }, then the return into startAnalysis
CrawlFinally ==
  /\ crawl.at = "finally"
  /\ IF crawl.thrown
     THEN CrawlThrows
     ELSE /\ UrlsObtained(crawl.urls, TRUE)
          /\ crawl' = NoCrawl
          /\ UNCHANGED << popup, coreVars, reportVars, shouldCancel, storage, tasks,
                          received >>

\* a finally that clears isRunning and leaves runningState.active alone
AnalysisEnds_KeepsActive ==
  /\ isRunning' = FALSE
  /\ UNCHANGED runningState
  /\ run' = NoRun
  /\ activeRuns' = activeRuns - 1

\* the run is over: finally { isRunning = false; runningState.active = false }
AnalysisEnds ==
  /\ isRunning' = FALSE
  /\ runningState' = [runningState EXCEPT !.active = FALSE]
  /\ run' = NoRun
  /\ activeRuns' = activeRuns - 1

\* timestamp: new Date().toISOString(), the clock read as the number of the
\* run: a later run has a later timestamp
Stamped(data, t) ==
  [f \in DOMAIN data \cup {"timestamp"} |->
     IF f = "timestamp" THEN t ELSE data[f]]

\* captureScreenshots resolves into startAnalysis: lines 79-118
AnalysisCaptured ==
  /\ run.kind = "analysis"
  /\ run.at = "capture"
  /\ cap.at = "returned"
  /\ IF CancelledAfterCapture
     THEN AnalysisFails("Analysis cancelled") /\ UNCHANGED tasks
     ELSE /\ tasks' = Append(tasks, [id |-> run.id,
                                     data |-> Stamped(DatasetOf(run.urls, Origin,
                                                                cap.results),
                                                      run.id)])
          /\ AnalysisEnds
          /\ UNCHANGED effects
  /\ cap' = CapIdle
  /\ UNCHANGED << popup, coreVars, reportVars, shouldCancel, storage, crawl, received >>

\* captureScreenshots rejects into startAnalysis' catch
AnalysisCaptureThrew ==
  /\ run.kind = "analysis"
  /\ run.at = "capture"
  /\ cap.at = "threw"
  /\ AnalysisFails("capture failed")
  /\ cap' = CapIdle
  /\ UNCHANGED << popup, coreVars, reportVars, shouldCancel, storage, crawl, tasks,
                  received >>

\* sendComplete after its await: storage written, report opened, 'complete'
DatasetStored(k) ==
  /\ k \in 1..Len(tasks)
  /\ storage' = tasks[k].data
  /\ effects' = effects \o << Effect("stored", tasks[k].id),
                              Effect("opened", tasks[k].id),
                              Effect("complete", tasks[k].id) >>
  /\ tasks' = RemoveAt(tasks, k)
  /\ UNCHANGED << popup, coreVars, reportVars, captureVars, isRunning, runningState, run,
                  activeRuns, crawl, received >>

\* chrome.storage.local.set rejects inside sendComplete, which nobody awaits
DatasetStoreFails(k) ==
  /\ k \in 1..Len(tasks)
  /\ tasks' = RemoveAt(tasks, k)
  /\ UNCHANGED << popup, coreVars, reportVars, captureVars, storage, isRunning,
                  runningState, run, activeRuns, crawl, effects, received >>

\* a 'captureMore' message: captureMoreScreenshots up to its first await
CaptureMoreMessage(req) ==
  /\ received < MaxMessages
  /\ received' = received + 1
  /\ IF CaptureMoreRejected
     THEN /\ effects' = Append(effects, TabEffect("captureMoreError", received + 1,
                                                  req.sourceTabId))
          /\ UNCHANGED << isRunning, shouldCancel, run, activeRuns, cap >>
     ELSE /\ isRunning' = TRUE
          /\ shouldCancel' = FALSE
          /\ run' = [NoRun EXCEPT !.kind = "captureMore", !.at = "capture",
                                  !.id = received + 1, !.urls = req.urls,
                                  !.parentPath = req.parentPath,
                                  !.sourceTabId = req.sourceTabId]
          /\ activeRuns' = activeRuns + 1
          /\ cap' = CaptureEnter(req.urls, "captureMore")
          /\ UNCHANGED effects
  /\ UNCHANGED << popup, coreVars, reportVars, storage, runningState, crawl, tasks >>

\* captureMoreScreenshots: finally { isRunning = false }
CaptureMoreEnds ==
  /\ isRunning' = FALSE
  /\ run' = NoRun
  /\ activeRuns' = activeRuns - 1
  /\ cap' = CapIdle
  /\ UNCHANGED << popup, coreVars, reportVars, shouldCancel, runningState, crawl, tasks,
                  received >>

\* catch (error) { sendToTab captureMoreError }
CaptureMoreFails ==
  /\ effects' = Append(effects, TabEffect("captureMoreError", run.id,
                                          run.sourceTabId))
  /\ CaptureMoreEnds
  /\ UNCHANGED storage

\* sendToTab captureMoreComplete
CaptureMoreSucceeds ==
  /\ effects' = Append(effects, TabEffect("captureMoreComplete", run.id,
                                          run.sourceTabId))
  /\ CaptureMoreEnds

\* captureScreenshotsDebugger resolves: chrome.storage.local.get is called
MoreCaptured ==
  /\ run.kind = "captureMore"
  /\ run.at = "capture"
  /\ cap.at = "returned"
  /\ run' = [run EXCEPT !.at = "read"]
  /\ UNCHANGED << popup, coreVars, reportVars, captureVars, storage, isRunning,
                  runningState, activeRuns, crawl, tasks, effects, received >>

\* captureScreenshotsDebugger rejects
MoreCaptureThrew ==
  /\ run.kind = "captureMore"
  /\ run.at = "capture"
  /\ cap.at = "threw"
  /\ CaptureMoreFails

\* chrome.storage.local.get resolves: merge and call chrome.storage.local.set
StorageRead ==
  /\ run.at = "read"
  /\ IF storage # NoPending
     THEN /\ run' = [run EXCEPT !.at = "write",
                                !.data = SwMergedReportData(storage, cap.results)]
          /\ UNCHANGED << popup, coreVars, reportVars, captureVars, storage, isRunning,
                          runningState, activeRuns, crawl, tasks, effects,
                          received >>
     ELSE CaptureMoreSucceeds /\ UNCHANGED storage

\* chrome.storage.local.get rejects
StorageReadFails ==
  /\ run.at = "read"
  /\ CaptureMoreFails

\* chrome.storage.local.set resolves
StorageWritten ==
  /\ run.at = "write"
  /\ storage' = run.data
  /\ CaptureMoreSucceeds

\* chrome.storage.local.set rejects
StorageWriteFails ==
  /\ run.at = "write"
  /\ CaptureMoreFails

WorkerInit ==
  /\ CoreIdle
  /\ ReportIdle
  /\ CaptureIdle
  /\ WorkerIdle
  /\ PopupClosed

WorkerNext ==
  \/ StartMessage
  \/ CancelMessage
  \/ \E req \in MoreRequests : CaptureMoreMessage(req)
  \/ \E us \in WorkerSitemaps : SitemapFetched(us)
  \/ SitemapFails
  \/ CrawlTabCreated
  \/ CrawlSetupFails
  \/ CrawlAttachDone
  \/ CrawlAttachFails
  \/ CrawlEnableDone
  \/ CrawlEnableFails
  \/ CrawlIter
  \/ CrawlExit
  \/ \E links \in CrawlLinkLists : CrawlPageDone(links)
  \/ CrawlPageFails
  \/ CrawlFinally
  \/ ContextCreated
  \/ SetupFails
  \/ AttachDone
  \/ AttachFails
  \/ SetupDone
  \/ MetricsFails
  \/ LoopIter
  \/ LoopExit
  \/ RenderDone
  \/ \E message \in RenderErrors : RenderFails(message)
  \/ Finally
  \/ AnalysisCaptured
  \/ AnalysisCaptureThrew
  \/ \E k \in 1..Len(tasks) : DatasetStored(k)
  \/ \E k \in 1..Len(tasks) : DatasetStoreFails(k)
  \/ MoreCaptured
  \/ MoreCaptureThrew
  \/ StorageRead
  \/ StorageReadFails
  \/ StorageWritten
  \/ StorageWriteFails

SpecWorker == WorkerInit /\ [][WorkerNext]_vars

\* ------------------------------------------------------ the crawler on a site
\* a site without sitemap, as the list of its pages: the homepage with MaxTop
\* pages linked from it
CrawlWideSite == SiteUrls(MaxTop, 1, 0)

\* the homepage, /a and /b, /a/s, the pages /a/s/t, /a/s/u, ... three links
\* from the homepage, and /a/s/t/u four links from it
CrawlDeepSite ==
  << Homepage, Url(<< "a" >>, FALSE), Url(<< "b" >>, FALSE),
     Url(<< "a", SubNames[1] >>, FALSE) >>
    \o [j \in 1..(Len(SubNames) - 1) |->
          Url(<< "a", SubNames[1], SubNames[j + 1] >>, FALSE)]
    \o << Url(<< "a", SubNames[1], SubNames[2], SubNames[3] >>, FALSE) >>

CrawlSites == { CrawlWideSite, CrawlDeepSite }

\* what extractLinks returns on a page of the site: a link to the homepage,
\* the pages one segment below the page, and the page itself as a directory
SiteLinks(site, page) ==
  << Homepage >>
    \o SelectSeq(site, LAMBDA u :
                   /\ Depth(u) = Depth(page) + 1
                   /\ SubSeq(Segments(u), 1, Depth(page)) = Segments(page))
    \o << [page EXCEPT !.slash = TRUE] >>

\* the service worker before a start message, on a site (urls) whose sitemap
\* cannot be fetched
CrawlInit ==
  /\ urls \in CrawlSites
  /\ baseUrl = Origin
  /\ maxPages = 0
  /\ tree = RootNode(Origin)
  /\ buildIdx = 1
  /\ sel = SelectIdle
  /\ ReportIdle
  /\ CaptureIdle
  /\ WorkerIdle
  /\ PopupClosed

\* start and cancel messages, and the steps of the crawler; the page at hand
\* is the URL pushed last
CrawlNext ==
  \/ StartMessage
  \/ CancelMessage
  \/ SitemapFails
  \/ CrawlTabCreated
  \/ CrawlSetupFails
  \/ CrawlAttachDone
  \/ CrawlAttachFails
  \/ CrawlEnableDone
  \/ CrawlEnableFails
  \/ CrawlIter
  \/ CrawlExit
  \/ CrawlPageDone(SiteLinks(urls, crawl.urls[Len(crawl.urls)]))
  \/ CrawlPageFails
  \/ CrawlFinally

SpecCrawl == CrawlInit /\ [][CrawlNext]_vars

\* -------------------------------------- the worker after an earlier analysis
\* the service worker with the dataset of an earlier analysis in storage (run
\* 0, over a sitemap of two pages), report pages of it being open
StoredInit ==
  /\ CoreIdle
  /\ ReportIdle
  /\ CaptureIdle
  /\ SwIdle
  /\ PopupClosed
  /\ storage = Stamped(ReportDataOf(<< Homepage, Url(<<"a">>, FALSE) >>, {}), 0)

SpecStored == StoredInit /\ [][WorkerNext]_vars

\* ------------------------------------------------------------- the popup
\* the runtime messages a popup listens to that the worker sent after the
\* popup saw its last: 'complete' and 'error' (progress events are left out)
UnseenEvents ==
  { i \in (popup.seen + 1)..Len(effects) :
      effects[i].type \in {"complete", "error"} /\ effects[i].to = 0 }

\* the popup is opened: DOMContentLoaded, and the getStatus callback with the
\* worker's runningState
PopupOpens ==
  /\ ~popup.open
  /\ popup' = [open |-> TRUE, isRunning |-> runningState.active,
               seen |-> Len(effects), unanswered |-> FALSE]
  /\ UNCHANGED << coreVars, reportVars, captureVars, workerVars >>

\* doStartAnalysis: if (isRunning) return; isRunning = true; sendMessage
\* start, taken with the worker's handling of the message
PopupStart ==
  /\ popup.open
  /\ ~popup.isRunning
  /\ popup' = [popup EXCEPT !.isRunning = TRUE, !.unanswered = TRUE]
  /\ StartReceived

\* cancelAnalysis: sendMessage cancel, resetUI; the cancel button is shown
\* while isRunning
PopupCancel ==
  /\ popup.open
  /\ popup.isRunning
  /\ popup' = [popup EXCEPT !.isRunning = FALSE]
  /\ CancelReceived

\* the popup's listener on 'complete' or 'error': handleComplete and
\* handleError end in resetUI
PopupHandles ==
  /\ popup.open
  /\ UnseenEvents # {}
  /\ popup' = [popup EXCEPT
                 !.seen = CHOOSE i \in UnseenEvents :
                            \A j \in UnseenEvents : i <= j,
                 !.isRunning = FALSE,
                 !.unanswered = FALSE]
  /\ UNCHANGED << coreVars, reportVars, captureVars, workerVars >>

\* the steps of the runs in the service worker: every await settles
WorkerRuns ==
  \/ \E us \in WorkerSitemaps : SitemapFetched(us)
  \/ SitemapFails
  \/ CrawlTabCreated
  \/ CrawlSetupFails
  \/ CrawlAttachDone
  \/ CrawlAttachFails
  \/ CrawlEnableDone
  \/ CrawlEnableFails
  \/ CrawlIter
  \/ CrawlExit
  \/ \E links \in CrawlLinkLists : CrawlPageDone(links)
  \/ CrawlPageFails
  \/ CrawlFinally
  \/ ContextCreated
  \/ SetupFails
  \/ AttachDone
  \/ AttachFails
  \/ SetupDone
  \/ MetricsFails
  \/ LoopIter
  \/ LoopExit
  \/ RenderDone
  \/ \E message \in RenderErrors : RenderFails(message)
  \/ Finally
  \/ AnalysisCaptured
  \/ AnalysisCaptureThrew
  \/ \E k \in 1..Len(tasks) : DatasetStored(k)
  \/ \E k \in 1..Len(tasks) : DatasetStoreFails(k)
  \/ MoreCaptured
  \/ MoreCaptureThrew
  \/ StorageRead
  \/ StorageReadFails
  \/ StorageWritten
  \/ StorageWriteFails

PopupNext ==
  \/ PopupOpens
  \/ PopupStart
  \/ PopupCancel
  \/ PopupHandles
  \/ \E req \in MoreRequests : CaptureMoreMessage(req)
  \/ WorkerRuns

\* the popup with the service worker and a report page that sends captureMore
\* messages: every promise of a run settles, and a runtime message is
\* delivered to the open popup's listener
SpecPopup ==
  /\ WorkerInit
  /\ [][PopupNext]_vars
  /\ WF_vars(WorkerRuns)
  /\ WF_vars(PopupHandles)

\* ------------------------------------------------- service worker claims
\* page renders awaited at this moment: by the capture loop and by the crawler
RendersInProgress ==
  (IF cap.at = "render" THEN 1 ELSE 0) + (IF crawl.at = "page" THEN 1 ELSE 0)

\* C12: under any interleaving of start, cancel and captureMore messages at
\* most one capture run (full analysis or captureMore) is active, and no two
\* page renders overlap
C12_SingleRun ==
  /\ activeRuns <= 1
  /\ RendersInProgress <= 1
  /\ (cap.at # "idle" \/ crawl.at # "idle") => activeRuns = 1 /\ isRunning

\* a second start arrived while the first run was rendering a page
C12_Witness ==
  /\ activeRuns = 1
  /\ cap.at = "render"
  /\ run.kind = "analysis"
  /\ run.id = 1
  /\ received = 2
  /\ ~shouldCancel
  /\ effects = << >>

\* the positions of effects with one of these types
EffectsOf(types) == { i \in 1..Len(effects) : effects[i].type \in types }

\* the analysis runs during which a cancel message was processed
CancelledRuns == { effects[i].id : i \in EffectsOf({"cancelled"}) }

\* C15: a full analysis during which a cancel was processed never persists a
\* dataset, never opens the report page and never emits complete
C15_CancelledRunNeverReports ==
  \A r \in CancelledRuns :
    /\ \A i \in EffectsOf({"stored", "opened", "complete"}) : effects[i].id # r
    /\ \A k \in 1..Len(tasks) : tasks[k].id # r

\* a cancelled analysis ended with the error and nothing stored or pending
C15_Witness ==
  /\ Len(effects) = 2
  /\ effects[1] = Effect("cancelled", 1)
  /\ effects[2] = ErrorEffect(1, "Analysis cancelled")
  /\ ~isRunning
  /\ tasks = << >>
  /\ storage = NoPending

\* the step in which the page source turns out to have yielded no URL
ZeroUrlsStep ==
  \/ run.at = "fetch" /\ SitemapFetched(<< >>)
  \/ crawl.at = "finally" /\ ~crawl.thrown /\ crawl.urls = << >> /\ CrawlFinally

\* C16: when the sitemap, or the crawl after a failed sitemap, yields zero
\* URLs the run ends with an error event, starts no capture and persists no
\* dataset
C16_ZeroUrlsIsAnError ==
  [][ZeroUrlsStep =>
       /\ \E message \in {"No URLs found in sitemap.",
                          "No pages found while crawling."} :
            effects' = Append(effects, ErrorEffect(run.id, message))
       /\ cap' = cap
       /\ cap.at = "idle"
       /\ tasks' = tasks
       /\ storage' = storage
       /\ run' = NoRun
       /\ ~isRunning']_vars

\* a crawl cancelled before its first page ended the run with the error
C16_Witness ==
  /\ Len(effects) = 2
  /\ effects[1] = Effect("cancelled", 1)
  /\ effects[2] = ErrorEffect(1, "No pages found while crawling.")
  /\ cap = CapIdle
  /\ storage = NoPending
  /\ tasks = << >>

\* C17: a captureMore message that arrives while a run is in flight is
\* answered at once with captureMoreError to the requesting tab, starts no
\* capture and leaves isRunning, shouldCancel, runningState and the run in
\* flight with its results unchanged
C17_BusyCaptureMoreRejected ==
  [][\A req \in MoreRequests :
       (isRunning /\ CaptureMoreMessage(req)) =>
         /\ effects' = Append(effects, TabEffect("captureMoreError", received + 1,
                                                 req.sourceTabId))
         /\ UNCHANGED << isRunning, shouldCancel, runningState, cap, run, crawl,
                         activeRuns, storage, tasks >>]_vars

\* a captureMore was rejected while an analysis was rendering a page
C17_Witness ==
  /\ isRunning
  /\ run.kind = "analysis"
  /\ cap.at = "render"
  /\ Len(cap.results) > 0
  /\ Len(effects) = 1
  /\ effects[1].type = "captureMoreError"
  /\ effects[1].id = 2
  /\ effects[1].to = 8

\* C20: a failed write of the dataset at the end of a full analysis emits an
\* error event for that run; a failed read or write of the dataset in a
\* captureMore run sends captureMoreError and no captureMoreComplete
C20_PersistenceFailureReported ==
  [][/\ \A k \in 1..Len(tasks) :
          DatasetStoreFails(k) =>
            /\ Len(effects') = Len(effects) + 1
            /\ effects'[Len(effects')].type = "error"
            /\ effects'[Len(effects')].id = tasks[k].id
     /\ ((run.at \in {"read", "write"} /\ (StorageReadFails \/ StorageWriteFails)) =>
          effects' = Append(effects, TabEffect("captureMoreError", run.id,
                                               run.sourceTabId)))]_vars

\* C22: the status getStatus returns (runningState) has active = true only
\* while a full analysis is in flight: active implies isRunning, and it is
\* false once the run has completed, failed or been cancelled
C22_ActiveOnlyWhileRunning ==
  /\ runningState.active => (isRunning /\ run.kind = "analysis" /\ ~shouldCancel)
  /\ ~isRunning => ~runningState.active

\* the status is active while the analysis renders its second page
C22_Witness ==
  /\ runningState.active
  /\ runningState.current = 2
  /\ cap.at = "render"
  /\ run.kind = "analysis"

\* ------------------------------------------------------- tree observations
PathsOf(nodes) == [i \in 1..Len(nodes) |-> nodes[i].path]

\* the distinct paths the parseable URLs of a list name: every non-empty prefix
InputPaths(us) ==
  UNION { { SubSeq(Segments(us[i]), 1, k) : k \in 1..Depth(us[i]) } : i \in 1..Len(us) }

\* the depth whose round-robin state branchPointers holds: the depth of the
\* running while loop, or of the last one that ran
loopActive == sel.at = "while" \/ (sel.at \in {"for", "done"} /\ sel.depthIdx > 1)
loopDepth == IF sel.at = "while" THEN depths[sel.depthIdx] ELSE depths[sel.depthIdx - 1]
loopUrls == UrlsAtDepth(parsedUrls, loopDepth)
\* URLs of a branch consumed so far (its pointer) and its length
Consumed(b) == sel.branchPointers[b]
BranchLen(b) == Len(BranchUrls(loopUrls, b))
\* URLs of a branch of the loop's depth that the loop pushed to selected
Received(b) ==
  Cardinality({ i \in 1..Len(sel.selected) :
                  /\ Depth(sel.selected[i]) = loopDepth
                  /\ Branch(sel.selected[i]) = b
                  /\ loopDepth > 0 })

\* ------------------------------------------------------------------- claims

\* C1: the tree buildUrlTree builds has exactly one node per distinct path of
\* the input (no path twice, a node for every prefix path, no other node), and
\* every non-root node's path is its parent's path + its own segment + '/'.
C1_OneNodePerPath ==
  LET nodes == AllNodes(tree)
  IN /\ NoDuplicates(PathsOf(nodes))
     /\ Range(PathsOf(nodes)) =
          InputPaths(SubSeq(sortedUrls, 1, buildIdx - 1)) \cup { <<>> }
     /\ \A i \in 1..Len(nodes) : \A k \in 1..Len(nodes[i].children) :
          nodes[i].children[k].path = Append(nodes[i].path, nodes[i].children[k].name)

\* the tree is built from a list in which one URL's path is a prefix of (or
\* equal to) another's, so an existing node was met again
C1_Witness ==
  /\ sel.at = "done"
  /\ Len(AllNodes(tree)) >= 3
  /\ \E i, j \in 1..Len(parsedUrls) :
       /\ i # j
       /\ Depth(parsedUrls[i]) >= 1
       /\ Depth(parsedUrls[j]) >= Depth(parsedUrls[i])
       /\ SubSeq(Segments(parsedUrls[j]), 1, Depth(parsedUrls[i])) = Segments(parsedUrls[i])

\* C2: selectRepresentativeUrls returns at most maxPages URLs, for maxPages >= 0.
C2_AtMostMaxPages == sel.at = "done" => Len(sel.result) <= maxPages

\* the selection held more than maxPages URLs before the final slice
C2_Witness == sel.at = "done" /\ Len(sel.selected) > maxPages /\ Len(sel.result) = maxPages

\* C3: round-robin at one depth: the consumed counts of two branches differ by
\* at most one unless the branch with fewer is exhausted, and no branch gets a
\* second URL while another still has an unconsumed URL and got none.
C3_RoundRobin ==
  loopActive =>
    \A b1, b2 \in DOMAIN sel.branchPointers :
      /\ Consumed(b1) > Consumed(b2) + 1 => Consumed(b2) >= BranchLen(b2)
      /\ (b1 # b2 /\ Received(b1) >= 2) =>
           ~(Received(b2) = 0 /\ Consumed(b2) < BranchLen(b2))

\* two branches at one depth, one of them consumed twice
C3_Witness ==
  /\ loopActive
  /\ \E b1, b2 \in DOMAIN sel.branchPointers :
       b1 # b2 /\ Consumed(b1) >= 2 /\ Received(b1) >= 2 /\ Received(b2) >= 1

\* C4: for maxPages in 10..50 the result holds the base URL, and the homepage
\* (the first parsed URL of depth 0) when the input has one.
C4_HomepageAndBase ==
  (sel.at = "done" /\ maxPages >= MinMaxPages) =>
    /\ Includes(sel.result, baseUrl)
    /\ \A i \in 1..Len(parsedUrls) :
         (Depth(parsedUrls[i]) = 0 /\ \A k \in 1..(i - 1) : Depth(parsedUrls[k]) # 0)
           => Includes(sel.result, parsedUrls[i])

\* a run with a homepage that is not the base URL string, and deeper URLs
C4_Witness ==
  /\ sel.at = "done"
  /\ maxPages >= MinMaxPages
  /\ Includes(parsedUrls, Homepage)
  /\ Len(sel.result) >= 3

\* C5: the returned list holds no URL string twice.
C5_NoDuplicateUrls == sel.at = "done" => NoDuplicates(sel.result)

\* the input lists a URL twice, and the homepage is met again at depth 0
C5_Witness ==
  /\ sel.at = "done"
  /\ ~NoDuplicates(urls)
  /\ Includes(parsedUrls, Homepage)
  /\ Len(sel.result) >= 3

\* C6: after collapseTree with maxChildren = 5, a node that had k > 5 children
\* has exactly 4 real children (the first 4, in order) followed by one ellipsis
\* node whose hiddenChildren has length k - 4; a node that had k <= 5 children
\* keeps the same k children in the same order and gets no ellipsis node.
C6_CollapseShape ==
  \A node \in Range(AllNodes(currentReportData.tree)) :
    LET k == Len(node.children)
        collapsed == collapseTree(node, MaxChildren).children
        Real(i) == /\ ~IsEllipsis(collapsed[i])
                   /\ collapsed[i].path = node.children[i].path
                   /\ collapsed[i].name = node.children[i].name
                   /\ collapsed[i].url = node.children[i].url
    IN IF k > MaxChildren
       THEN /\ Len(collapsed) = MaxChildren
            /\ \A i \in 1..(MaxChildren - 1) : Real(i)
            /\ IsEllipsis(collapsed[MaxChildren])
            /\ Len(collapsed[MaxChildren].hiddenChildren) = k - (MaxChildren - 1)
            /\ \A j \in 1..(k - (MaxChildren - 1)) :
                 collapsed[MaxChildren].hiddenChildren[j].path =
                   node.children[MaxChildren - 1 + j].path
       ELSE /\ Len(collapsed) = k
            /\ \A i \in 1..k : Real(i)

\* the page shows the collapse of a dataset in which the root has more than 6
\* children and a deeper node more than 5 (its other nodes have none)
C6_Witness ==
  /\ currentReportData # NoPending
  /\ expansions = 0
  /\ currentTreeData = collapseTree(currentReportData.tree, MaxChildren)
  /\ Len(currentReportData.tree.children) > MaxChildren + 1
  /\ ShownEllipses # {}
  /\ \E n \in Range(AllNodes(currentReportData.tree)) :
       Len(n.children) > MaxChildren /\ n.path # << >>

\* C7: once repeated expansion has left no ellipsis node in the display tree,
\* the display tree has the node paths of the full tree, each once, and the
\* full tree's url at every path.
C7_RoundTrip ==
  LET shown == AllNodes(currentTreeData)
      full == AllNodes(currentReportData.tree)
      PathUrl(nodes) == { << nodes[i].path, nodes[i].url >> : i \in 1..Len(nodes) }
  IN (currentReportData # NoPending /\ ShownEllipses = {}) =>
       /\ PathUrl(shown) = PathUrl(full)
       /\ Len(shown) = Len(full)

\* every ellipsis node is gone after at least three expansions, one of which
\* left a new ellipsis node for the remaining nodes
C7_Witness ==
  /\ currentReportData # NoPending
  /\ ShownEllipses = {}
  /\ expansions >= 3
  /\ Len(currentReportData.tree.children) >= MaxChildren + ExpandBatchSize
  /\ \E n \in Range(AllNodes(currentReportData.tree)) :
       Len(n.children) > MaxChildren /\ n.path # << >>

\* C8: in a capture run over N URLs that is not cancelled, a renderer failure on
\* one URL does not abort the batch: the returned list has length N, result i
\* carries the i-th URL, a failed URL is recorded with screenshot = null and an
\* error, and every other URL with its screenshot.
C8_FailureDoesNotAbort ==
  (cap.at = "returned" /\ ~shouldCancel) =>
    /\ Len(cap.results) = Len(cap.urls)
    /\ Len(cap.outcomes) = Len(cap.urls)
    /\ \A k \in 1..Len(cap.results) :
         /\ cap.results[k].url = cap.urls[k]
         /\ IF cap.outcomes[k] \in RenderErrors
            THEN /\ cap.results[k].screenshot = Null
                 /\ "error" \in DOMAIN cap.results[k]
                 /\ cap.results[k].error = cap.outcomes[k]
            ELSE /\ cap.results[k].screenshot = Shot(cap.urls[k])
                 /\ "error" \notin DOMAIN cap.results[k]

\* a run over three URLs returned, the renderer having failed on the second
\* and on no other
C8_Witness ==
  /\ cap.at = "returned"
  /\ ~shouldCancel
  /\ Len(cap.urls) = 3
  /\ cap.outcomes[1] = "ok"
  /\ cap.outcomes[2] \in RenderErrors
  /\ cap.outcomes[3] = "ok"

\* C9: in a capture run over N URLs that is not cancelled, progress is reported
\* exactly N times, with current = 1, 2, ..., N and total = N; the progress
\* event of URL i comes before the renderer is invoked for URL i and after the
\* result of URL i-1 was recorded.
C9_ProgressPerUrl ==
  LET N == Len(cap.urls)
      progress == ProgressEvents
  IN /\ \A j \in 1..Len(progress) :
          /\ progress[j].current = j
          /\ progress[j].total = N
          /\ progress[j].url = cap.urls[j]
     /\ \A j \in 1..N :
          /\ \A p \in TracePositions("navigate", j) :
               \E q \in TracePositions("progress", j) : q < p
          /\ \A p \in TracePositions("progress", j) :
               j > 1 => \E q \in TracePositions("result", j - 1) : q < p
     /\ (cap.at = "returned" /\ ~shouldCancel) => Len(progress) = N

\* a run over three URLs returned after the fallback to the window method, with
\* a renderer failure among its results
C9_Witness ==
  /\ cap.at = "returned"
  /\ ~shouldCancel
  /\ cap.method = "window"
  /\ Len(cap.urls) = 3
  /\ Len(ProgressEvents) = 3
  /\ \E k \in 1..Len(cap.outcomes) : cap.outcomes[k] \in RenderErrors

\* C11: merging is idempotent on both sides: merging the screenshots of a
\* completed captureMore run once more into the persisted dataset, or into the
\* report page's copy, leaves screenshotMap and capturedUrlSet as they were
\* after the first merge.
C11_MergeIdempotent ==
  [][ /\ (\E failed \in SUBSET CaptureUrlsOfHead : SwCaptureMoreComplete(failed))
        => LET again == SwMergedReportData(storage', responses'[Len(responses')].screenshots)
           IN /\ again.screenshotMap = storage'.screenshotMap
              /\ again.capturedUrlSet = storage'.capturedUrlSet
      /\ (HandleExpandComplete /\ pendingExpand # NoPending)
        => LET again == MergedReportData(currentReportData', Head(responses).screenshots)
           IN /\ again.screenshotMap = currentReportData'.screenshotMap
              /\ again.capturedUrlSet = currentReportData'.capturedUrlSet ]_vars

\* both sides have merged the screenshots of a captureMore run into a dataset
\* that held the ten of the initial run
C11_Witness ==
  /\ storage # NoPending
  /\ currentReportData # NoPending
  /\ Len(storage.capturedUrlSet) > MinMaxPages
  /\ Len(currentReportData.capturedUrlSet) > MinMaxPages
  /\ expansions >= 1

\* C13: every hidden tab and capture window a capture run creates is detached
\* and closed on every exit path: none remains open once the run has returned
\* or thrown.
C13_ContextsReleased ==
  cap.at \in { "returned", "threw" } =>
    /\ cap.tab \in { "none", "closed" }
    /\ cap.window \in { "none", "closed" }

\* C14: cancellation of the capture loop is cooperative: a capture in progress
\* when the flag is set still records its result; once the loop head sees the
\* flag no progress is emitted and no page rendered any more, and the loop
\* returns normally with the results of the URLs processed so far, in order.
C14_CooperativeCancel ==
  /\ [][ (shouldCancel /\ cap.at = "render")
           => Len(cap'.results) = Len(cap.results) + 1 ]_vars
  /\ [][ (shouldCancel /\ cap.at = "loop")
           => /\ cap'.at = "finally" /\ ~cap'.thrown
              /\ cap'.trace = cap.trace /\ cap'.results = cap.results ]_vars
  /\ [][ (shouldCancel /\ cap.at = "finally" /\ ~cap.thrown)
           => /\ cap'.at = "returned"
              /\ cap'.trace = cap.trace /\ cap'.results = cap.results ]_vars
  /\ [](( shouldCancel /\ cap.at = "returned") =>
          /\ Len(cap.results) = Cardinality({ p \in 1..Len(cap.trace) :
                                                cap.trace[p].ev = "navigate" })
          /\ Len(cap.results) <= Len(cap.urls)
          /\ \A k \in 1..Len(cap.results) : cap.results[k].url = cap.urls[k])

\* a run cancelled while it rendered a page that was not the last returned
\* that page's result and those before it
C14_Witness ==
  /\ shouldCancel
  /\ cap.at = "returned"
  /\ Len(cap.results) >= 1
  /\ Len(cap.results) < Len(cap.urls)

\* C10: while isExpanding is true, a click on an ellipsis node or on a
\* placeholder node changes neither the display tree, nor the pending request,
\* nor the dataset copy, and sends no captureMore message.
C10_ClickWhileExpanding ==
  [][ (/\ isExpanding
       /\ \/ \E e \in ShownEllipses : ExpandClick(e)
          \/ \E n \in ShownPlaceholders : SingleNodeClick(n))
      => UNCHANGED << currentTreeData, pendingExpand, currentReportData,
                      requests >> ]_vars

\* a request is in flight while the page shows an ellipsis node with hidden
\* children and a placeholder node
C10_Witness ==
  /\ isExpanding
  /\ pendingExpand # NoPending
  /\ \E e \in ShownEllipses : Len(e.hiddenChildren) > 0
  /\ ShownPlaceholders # {}

\* ---------------------------------------------------- report page claims
\* the URLs of a capturedUrlSet
CapturedUrls(data) == Range(data.capturedUrlSet)

\* capturedUrlSet and the keys of screenshotMap hold the same URLs, each once
InSync(data) ==
  /\ CapturedUrls(data) = DOMAIN data.screenshotMap
  /\ NoDuplicates(data.capturedUrlSet)

\* C23: in the dataset the service worker persisted and in the page's copy,
\* the URLs of capturedUrlSet are the keys of screenshotMap and capturedUrlSet
\* holds no URL twice
C23_CapturedInSync == InSync(storage) /\ InSync(currentReportData)

\* an expansion and a single-node capture were merged on both sides
C23_Witness ==
  /\ expansions > 0
  /\ singleRequests > 0
  /\ requests = << >>
  /\ responses = << >>
  /\ Len(currentReportData.capturedUrlSet) > Len(ReportDataOf(
        [i \in 1..Len(AllNodes(storage.tree)) |-> AllNodes(storage.tree)[i].url],
        {}).capturedUrlSet)

\* the nodes of a tree in pre-order without their screenshots and children
Skeleton(t) ==
  [i \in 1..Len(AllNodes(t)) |->
     [path |-> AllNodes(t)[i].path, url |-> AllNodes(t)[i].url,
      name |-> AllNodes(t)[i].name,
      kids |-> PathsOf(AllNodes(t)[i].children),
      isEllipsis |-> IsEllipsis(AllNodes(t)[i])]]

TreeCarriesShots(data) ==
  \A i \in 1..Len(AllNodes(data.tree)) :
    LET n == AllNodes(data.tree)[i]
    IN (n.url # Null /\ n.url \in DOMAIN data.screenshotMap) =>
         n.screenshot = data.screenshotMap[n.url]

\* C25: when new screenshots arrive the full tree is updated on both sides:
\* every node of the persisted full tree and of currentReportData.tree whose
\* url was captured carries the screenshot
C25_FullTreesUpdated == TreeCarriesShots(storage) /\ TreeCarriesShots(currentReportData)

\* C26: when the capture of an expansion fails (captureMoreError) the display
\* tree with the ellipsis node and its hiddenChildren, and the dataset copy,
\* are unchanged and isExpanding is cleared
C26_ErrorAbortsExpansion ==
  [][(/\ Len(responses) > 0
      /\ Head(responses).type = "captureMoreError"
      /\ responses' = Tail(responses)) =>
       /\ currentTreeData' = currentTreeData
       /\ currentReportData' = currentReportData
       /\ isExpanding' = FALSE
       /\ pendingExpand' = NoPending
       /\ expansions' = expansions]_vars

\* a captureMoreError reaches the page while an expansion is pending whose
\* ellipsis node is shown with its hidden children
C26_Witness ==
  /\ Len(responses) > 0
  /\ Head(responses).type = "captureMoreError"
  /\ isExpanding
  /\ pendingExpand # NoPending
  /\ pendingExpand.type = "expand"
  /\ pendingExpand.ellipsis \in ShownEllipses
  /\ Len(pendingExpand.ellipsis.hiddenChildren) > 0

\* the children of a display node that are not ellipsis nodes
RealChildren(node) ==
  LET Real(c) == ~IsEllipsis(c) IN SelectSeq(node.children, Real)

\* the number of nodes in the hiddenChildren of a display node's ellipsis nodes
RECURSIVE HiddenCount(_, _)
HiddenCount(kids, i) ==
  IF i > Len(kids) THEN 0
  ELSE (IF IsEllipsis(kids[i]) THEN Len(kids[i].hiddenChildren) ELSE 0)
         + HiddenCount(kids, i + 1)

\* the ellipsis node e of the display tree was replaced as C27 says
ExpandedAsSpecified(e) ==
  LET owner == findNodeByPath(currentTreeData, e.parentPath)
      after == findNodeByPath(currentTreeData', e.parentPath)
      kept == RealChildren(owner)
      h == Len(e.hiddenChildren)
      b == Min(e.expandBatchSize, h)
      rest == h - b
  IN /\ owner # NotFound
     /\ after # NotFound
     /\ Len(after.children) = Len(kept) + b + (IF rest > 0 THEN 1 ELSE 0)
     /\ \A i \in 1..Len(kept) : after.children[i] = kept[i]
     /\ \A j \in 1..b :
          LET c == after.children[Len(kept) + j]
          IN /\ ~IsEllipsis(c)
             /\ c.path = e.hiddenChildren[j].path
             /\ c.url = e.hiddenChildren[j].url
             /\ c.name = e.hiddenChildren[j].name
     /\ IF rest > 0
        THEN LET last == after.children[Len(after.children)]
             IN /\ IsEllipsis(last)
                /\ last.parentPath = e.parentPath
                /\ last.hiddenChildren = SubSeq(e.hiddenChildren, b + 1, h)
        ELSE TRUE

\* C27: a successful expansion of an ellipsis node with h hidden children
\* makes the owning node's children its previous non-ellipsis children in
\* order, then the first min(expandBatchSize, h) hidden children in order,
\* then one new ellipsis node with the remaining hidden children if and only
\* if any remain; so every shown node keeps as many visible real children plus
\* hidden children as it has children in the full tree
C27_ExpansionShape ==
  [][/\ expansions' = expansions + 1 =>
          \E e \in ShownEllipses :
            /\ pendingExpand # NoPending => pendingExpand.ellipsis = e
            /\ ExpandedAsSpecified(e)
     /\ \A n \in Range(AllNodes(currentTreeData')) :
          ~IsEllipsis(n) =>
            LET full == findNodeByPath(currentReportData'.tree, n.path)
            IN /\ full # NotFound
               /\ Len(RealChildren(n)) + HiddenCount(n.children, 1)
                    = Len(full.children)
               /\ Cardinality({ i \in 1..Len(n.children) :
                                  IsEllipsis(n.children[i]) }) <= 1]_vars

\* two expansions of the root's ellipsis node: the first left a new ellipsis
\* node for the remaining nodes, the second left none
C27_Witness ==
  /\ expansions = 2
  /\ Len(currentReportData.tree.children) = MaxTop
  /\ Len(RealChildren(currentTreeData)) = MaxTop
  /\ HiddenCount(currentTreeData.children, 1) = 0

\* C29: no captureMore message the page sends carries a URL that is in its
\* capturedUrlSet when it is sent, and none carries an empty URL list: a click
\* on an ellipsis node whose candidate URLs are all captured applies the
\* expansion at once, sends nothing and leaves isExpanding false
C29_OnlyNewUrlsRequested ==
  [][/\ Len(requests') > Len(requests) =>
          LET sent == requests'[Len(requests')]
          IN /\ Len(sent.urls) > 0
             /\ \A u \in Range(sent.urls) :
                  ~Includes(currentReportData.capturedUrlSet, u)
     /\ \A e \in ShownEllipses :
          (/\ ExpandClick(e)
           /\ ~isExpanding
           /\ Len(e.hiddenChildren) > 0
           /\ \A u \in Range(collectUrlsForCapture(
                  SubSeq(e.hiddenChildren, 1,
                         Min(e.expandBatchSize, Len(e.hiddenChildren))),
                  MaxCaptureCount)) :
                Includes(currentReportData.capturedUrlSet, u))
          => /\ requests' = requests
             /\ expansions' = expansions + 1
             /\ ExpandedAsSpecified(e)
             /\ ~isExpanding']_vars

\* an expansion was applied with no capture (nothing was captured after the
\* analysis), and a later click on an ellipsis node sent a request
C29_Witness ==
  /\ expansions > 0
  /\ failures = 0
  /\ Len(currentReportData.capturedUrlSet) <= MinMaxPages
  /\ Len(requests) = 1
  /\ isExpanding
  /\ pendingExpand # NoPending
  /\ pendingExpand.type = "expand"

\* C30: in every display tree reached by collapsing a tree of buildUrlTree
\* and expanding ellipsis nodes, no two nodes have the same path: the path of
\* an ellipsis node (owner path + '_more/') is the path of no real node
C30_DisplayPathsUnique == NoDuplicates(PathsOf(AllNodes(currentTreeData)))

\* the dataset holds no trace of a capture of u
NeverCaptured(data, u) ==
  /\ ~Includes(data.capturedUrlSet, u)
  /\ u \notin DOMAIN data.screenshotMap
  /\ \A n \in Range(AllNodes(data.tree)) : n.url = u => n.screenshot = Null

\* C21: a URL on which the capture failed, in the analysis or in a captureMore
\* run, is in capturedUrlSet and screenshotMap neither of the stored dataset
\* nor of the page's copy, and its nodes keep screenshot null; a click on its
\* placeholder node therefore sends a captureMore request for that URL
C21_FailedUrlStaysRetryable ==
  /\ [](\A u \in failedUrls :
          /\ NeverCaptured(storage, u)
          /\ NeverCaptured(currentReportData, u)
          /\ \A n \in ShownNodes : n.url = u => n.screenshot = Null)
  /\ [][\A n \in ShownPlaceholders :
          (n.url \in failedUrls /\ ~isExpanding /\ SingleNodeClick(n)) =>
            /\ requests' = Append(requests, CaptureMore(<< n.url >>, n.path))
            /\ isExpanding']_vars

\* the capture of a shown page failed, its placeholder node was clicked and
\* the request for it is on its way
C21_Witness ==
  /\ Len(requests) = 1
  /\ pendingExpand # NoPending
  /\ pendingExpand.type = "single"
  /\ Head(requests).urls[1] \in failedUrls
  /\ \E n \in ShownPlaceholders :
       n.path = pendingExpand.nodePath /\ n.url = Head(requests).urls[1]

\* the batch handleExpandClick reveals for the ellipsis node e
BatchOf(e) ==
  SubSeq(e.hiddenChildren, 1, Min(e.expandBatchSize, Len(e.hiddenChildren)))

RECURSIVE PreOrderUrls(_, _)
\* the URLs of the real nodes met in pre-order below and including the nodes,
\* following children down to MaxCaptureDepth levels below them
PreOrderUrls(nodes, level) ==
  IF level > MaxCaptureDepth \/ Len(nodes) = 0 THEN << >>
  ELSE (IF Head(nodes).url # Null /\ ~IsEllipsis(Head(nodes))
        THEN << Head(nodes).url >> ELSE << >>)
         \o PreOrderUrls(Head(nodes).children, level + 1)
         \o PreOrderUrls(Tail(nodes), level)

RECURSIVE UrlsBelow(_, _)
\* the URLs of the nodes more than level levels below the nodes, and of the
\* nodes in hiddenChildren of ellipsis nodes below them, at any depth
UrlsBelow(nodes, level) ==
  UNION { (IF level < 0 /\ nodes[i].url # Null THEN { nodes[i].url } ELSE {})
            \cup UrlsBelow(nodes[i].children, level - 1)
            \cup (IF IsEllipsis(nodes[i])
                  THEN UrlsBelow(nodes[i].hiddenChildren, -1) ELSE {})
          : i \in 1..Len(nodes) }

\* C28: collectUrlsForCapture returns at most 10 URLs, the first met in
\* pre-order traversal of the revealed nodes; none is the URL of an ellipsis
\* node or of a node in the hiddenChildren of a nested ellipsis node, and none
\* that of a node more than 2 levels below a revealed node
C28_CollectedUrls ==
  \A e \in ShownEllipses :
    LET collected == collectUrlsForCapture(BatchOf(e), MaxCaptureCount)
        expected == PreOrderUrls(BatchOf(e), 0)
    IN /\ Len(collected) <= MaxCaptureCount
       /\ collected = SubSeq(expected, 1, Min(MaxCaptureCount, Len(expected)))
       /\ Range(collected) \cap UrlsBelow(BatchOf(e), MaxCaptureDepth) = {}
       /\ Null \notin Range(collected)

\* the request of a click on an ellipsis node is on its way; the revealed
\* nodes hold more than 10 URLs within 2 levels, a nested ellipsis node with
\* hidden pages, and a page 3 levels down
C28_Witness ==
  /\ Len(requests) = 1
  /\ pendingExpand # NoPending
  /\ pendingExpand.type = "expand"
  /\ Len(PreOrderUrls(pendingExpand.nodesToExpand, 0)) > MaxCaptureCount
  /\ Homepage \notin UrlsBelow(pendingExpand.nodesToExpand, MaxCaptureDepth)
  /\ \E n \in Range(AllNodes(pendingExpand.nodesToExpand[2])) :
       IsEllipsis(n) /\ Len(n.hiddenChildren) > 0
  /\ Url(<< TopNames[MaxChildren + 1] >> \o SubSeq(SubNames, 1, 3), FALSE)
       \in UrlsBelow(pendingExpand.nodesToExpand, MaxCaptureDepth)
  /\ Len(Head(requests).urls) > 0

\* the page handles the captureMoreComplete at the head of its messages while
\* a request of the given type is pending
CompletionStep(type) ==
  /\ Len(responses) > 0
  /\ Head(responses).type = "captureMoreComplete"
  /\ responses' = Tail(responses)
  /\ pendingExpand # NoPending
  /\ pendingExpand.type = type

\* C31: after a successful expansion every node of the revealed subtrees of
\* the display tree whose url was captured for the request carries that
\* screenshot, and every display node outside the revealed batch (the owner,
\* its previous children, the rest of the tree) is as it was
C31_ExpansionAttachesScreenshots ==
  [][(CompletionStep("expand") /\ expansions' = expansions + 1) =>
       LET e == pendingExpand.ellipsis
           shots == ShotMap(Head(responses).screenshots)
           owner == findNodeByPath(currentTreeData, e.parentPath)
           after == findNodeByPath(currentTreeData', e.parentPath)
           kept == Len(RealChildren(owner))
           b == Len(pendingExpand.nodesToExpand)
       IN /\ \A j \in 1..b :
               \A n \in Range(AllNodes(after.children[kept + j])) :
                 (n.url # Null /\ n.url \in DOMAIN shots) =>
                   n.screenshot = shots[n.url]
          /\ \A i \in 1..kept : after.children[i] = RealChildren(owner)[i]
          /\ after.screenshot = owner.screenshot
          /\ ReplaceFound(currentTreeData', e.parentPath, owner) = currentTreeData
    ]_vars

\* the one expansion so far, of the root's ellipsis node, revealed a page with
\* pages below it, and a page below it that the analysis had not captured
\* carries a screenshot
C31_Witness ==
  /\ expansions = 1
  /\ Len(currentReportData.tree.children) > MaxChildren
  /\ Len(RealChildren(currentTreeData)) > MaxChildren - 1
  /\ singleRequests = 0
  /\ failures = 0
  /\ \E n \in ShownNodes :
       /\ Len(n.path) = 2
       /\ n.url # Null
       /\ n.screenshot = Shot(n.url)
       /\ \E i \in 1..Len(currentReportData.capturedUrlSet) :
            /\ currentReportData.capturedUrlSet[i] = n.url
            /\ i > Len(ReportDataOf(
                      [j \in 1..Len(AllNodes(storage.tree)) |->
                         AllNodes(storage.tree)[j].url], {}).capturedUrlSet)
       /\ \E k \in MaxChildren..Len(currentReportData.tree.children) :
            currentReportData.tree.children[k].path = SubSeq(n.path, 1, 1)

\* C32: a single-node capture sends a request with the clicked node's url
\* alone; its completion changes only the screenshot of the display node
\* found at the clicked node's path (to the captured screenshot): paths,
\* children lists, ellipsis nodes and other screenshots are unchanged
C32_SingleNodeCaptureFrame ==
  [][/\ singleRequests' = singleRequests + 1 =>
          \E n \in ShownPlaceholders :
            /\ requests' = Append(requests, CaptureMore(<< n.url >>, n.path))
            /\ pendingExpand'.nodePath = n.path
            /\ currentTreeData' = currentTreeData
     /\ CompletionStep("single") =>
          LET shots == ShotMap(Head(responses).screenshots)
              nodePath == pendingExpand.nodePath
              target == findNodeByPath(currentTreeData, nodePath)
              after == findNodeByPath(currentTreeData', nodePath)
          IN /\ expansions' = expansions
             /\ target # NotFound
             /\ after # NotFound
             /\ [after EXCEPT !.screenshot = target.screenshot] = target
             /\ ReplaceFound(currentTreeData', nodePath, target) = currentTreeData
             /\ (target.url \in DOMAIN shots /\ shots[target.url] # Null) =>
                  after.screenshot = shots[target.url]
             /\ target.url \notin DOMAIN shots =>
                  currentTreeData' = currentTreeData
    ]_vars

\* after an expansion, a click on a placeholder node was answered with its
\* screenshot, which the node carries beside an ellipsis node still shown
C32_Witness ==
  /\ singleRequests = 1
  /\ expansions > 0
  /\ ~isExpanding
  /\ requests = << >>
  /\ responses = << >>
  /\ failures = 0
  /\ ShownEllipses # {}
  /\ \E n \in ShownNodes :
       /\ n.url = currentReportData.capturedUrlSet[Len(currentReportData.capturedUrlSet)]
       /\ n.screenshot = Shot(n.url)

\* the depths present in the input
PresentDepths == { Depth(parsedUrls[i]) : i \in 1..Len(parsedUrls) }

RECURSIVE SumOfWeights(_)
\* the sum over a set of depths of max(1, 5 - depth)
SumOfWeights(ds) ==
  IF ds = {} THEN 0
  ELSE LET d == CHOOSE x \in ds : TRUE
       IN Max(1, DepthWeightBase - d) + SumOfWeights(ds \ {d})

\* the number of URLs selected before the depth loop: homepage and base URL
SelectedBeforeLoop == Len(InitialSelection(parsedUrls, baseUrl))

\* the URLs the depth loop has added to the selection from depth d so far
AddedFromDepth(d) ==
  Cardinality({ i \in (SelectedBeforeLoop + 1)..Len(sel.selected) :
                  Depth(sel.selected[i]) = d })

\* ceil(max(1, 5 - d) / (sum of the weights) * (maxPages - selected before))
QuotaOf(d) ==
  CeilDiv(Max(1, DepthWeightBase - d) * (maxPages - SelectedBeforeLoop),
          SumOfWeights(PresentDepths))

InsertedAt(p) ==
  { i \in 1..(buildIdx - 1) : i <= Len(sortedUrls) /\ Segments(sortedUrls[i]) = p }

\* C34: in the tree of buildUrlTree a non-root node has a url if and only if a
\* parseable input URL has exactly its path, and the url is the first such
\* URL in depth-sorted input order; a node created only as a prefix of deeper
\* URLs has url null; the root's url is the base URL; every screenshot is
\* null. Stated after each iteration, for the URLs inserted so far
C34_NodeUrls ==
  /\ tree.url = baseUrl
  /\ tree.path = << >>
  /\ \A n \in Range(AllNodes(tree)) :
       /\ n.screenshot = Null
       /\ n.path # << >> =>
            IF InsertedAt(n.path) = {}
            THEN n.url = Null
            ELSE n.url = sortedUrls[CHOOSE i \in InsertedAt(n.path) :
                                      \A k \in InsertedAt(n.path) : i <= k]

\* the builder is done with an input that has two URL strings with one path
\* and a URL whose parent directory is no page
C34_Witness ==
  /\ buildIdx > Len(sortedUrls)
  /\ sel.at = "idle"
  /\ \E n \in Range(AllNodes(tree)) :
       n.path # << >> /\ n.url = Null /\ Len(n.children) > 0
  /\ \E n \in Range(AllNodes(tree)) :
       n.path # << >> /\ Cardinality({ sortedUrls[i] : i \in InsertedAt(n.path) }) = 2

\* the longest list of links a page of the sites has
MaxLinks ==
  LET lens == UNION { { Len(SiteLinks(s, s[i])) : i \in 1..Len(s) } :
                      s \in CrawlSites }
  IN CHOOSE n \in lens : \A k \in lens : k <= n

\* what is left of a crawl: the pages it may still push, each worth more than
\* the links one page can add to the queue, and the queue
CrawlRank ==
  CASE crawl.at = "setup" -> (MinMaxPages + 1) * (MaxLinks + 2) + 6
    [] crawl.at = "attach" -> (MinMaxPages + 1) * (MaxLinks + 2) + 5
    [] crawl.at = "enable" -> (MinMaxPages + 1) * (MaxLinks + 2) + 4
    [] crawl.at \in {"loop", "page"} ->
         (MinMaxPages - Len(crawl.urls)) * (MaxLinks + 2) + Len(crawl.queue)
           + (IF crawl.at = "page" THEN MaxLinks + 1 ELSE 0) + 2
    [] crawl.at = "finally" -> 1
    [] OTHER -> 0

\* C35: crawlFromHomepage terminates (every step of it lowers a natural
\* number) and returns at most maxPages URLs, none twice after trimming; it
\* navigates only to a URL it has not pushed before and that was found at
\* most maxDepth links from the homepage
C35_CrawlBounded ==
  /\ [](/\ Len(crawl.urls) <= MinMaxPages
        /\ CrawlRank >= 0
        /\ \A i, j \in 1..Len(crawl.urls) :
             i # j => [crawl.urls[i] EXCEPT !.slash = FALSE]
                        # [crawl.urls[j] EXCEPT !.slash = FALSE])
  /\ [][/\ (crawl.at # "idle" /\ crawl' # crawl) => CrawlRank' < CrawlRank
        /\ (crawl.at = "loop" /\ crawl'.at = "page") =>
             /\ crawl'.urls = Append(crawl.urls, crawl'.urls[Len(crawl'.urls)])
             /\ \A i \in 1..Len(crawl.urls) :
                  [crawl.urls[i] EXCEPT !.slash = FALSE]
                    # [crawl'.urls[Len(crawl'.urls)] EXCEPT !.slash = FALSE]
             /\ crawl'.current <= CrawlMaxDepth
             /\ \E q \in Range(crawl.queue) :
                  /\ q.depth = crawl'.current
                  /\ [q.url EXCEPT !.slash = FALSE]
                       = crawl'.urls[Len(crawl'.urls)]
        /\ (crawl.at # "page" /\ crawl'.at # "page") =>
             crawl'.urls = crawl.urls \/ crawl' = NoCrawl]_vars

\* the crawl of the deep site returns maxPages URLs with links left in the
\* queue, after it loaded /a/s/t and left out /a/s/t/u
C35_Witness ==
  /\ urls = CrawlDeepSite
  /\ crawl.at = "finally"
  /\ ~crawl.thrown
  /\ Len(crawl.urls) = MinMaxPages
  /\ crawl.queue # << >>
  /\ Url(<< "a", SubNames[1], SubNames[2] >>, FALSE) \in Range(crawl.urls)
  /\ \A i \in 1..Len(crawl.urls) : Depth(crawl.urls[i]) <= CrawlMaxDepth
  /\ \A q \in Range(crawl.queue) : Depth(q.url) <= CrawlMaxDepth

StoredRun == IF storage = NoPending THEN 0 ELSE storage.timestamp

\* C38: sendComplete writes the dataset before it opens the report page and
\* before it emits complete, and a report page opened by a run reads, whenever
\* it loads, the dataset of that run or of a later one
C38_ReportReadsOwnDataset ==
  \A i \in 1..Len(effects) :
    /\ effects[i].type = "opened" =>
         /\ i > 1 /\ effects[i - 1] = Effect("stored", effects[i].id)
         /\ StoredRun >= effects[i].id
    /\ effects[i].type = "complete" =>
         /\ i > 2 /\ effects[i - 1] = Effect("opened", effects[i].id)

\* a captureMore run between the call of chrome.storage.local.get and the end
\* of its chrome.storage.local.set
MoreUpdating == run.kind = "captureMore" /\ run.at \in {"read", "write"}

\* C40: the read-modify-write of a captureMore run never overlaps the dataset
\* write of an analysis (a sendComplete that has not finished), and a write
\* of a captureMore run never replaces the stored dataset by one derived
\* from an older run
C40_NoLostUpdate ==
  /\ [](MoreUpdating => tasks = << >>)
  /\ [][(MoreUpdating /\ tasks' = tasks /\ storage' # storage) =>
          StoredRun' >= StoredRun]_vars

\* the dataset startAnalysis persists when every selected URL is captured
SelectedDataset == DatasetOf(urls, baseUrl, ResultsOf(sel.selected, {}))

\* u is the url of a node of the tree t, which carries its screenshot
AttachedIn(t, u) ==
  \E n \in Range(AllNodes(t)) : n.url = u /\ n.screenshot = Shot(u)

\* u is the first of the depth-sorted input URLs to have its path
FirstOfPath(u) ==
  \E i \in 1..Len(sortedUrls) :
    /\ sortedUrls[i] = u
    /\ \A j \in 1..(i - 1) : Segments(sortedUrls[j]) # Segments(u)

\* C39 as stated: every selected URL is the url of a node of the tree built
\* from the same input, and every URL of the persisted capturedUrlSet is the
\* url of a node of the persisted tree, which carries its screenshot
C39_SelectedAreNodeUrls ==
  sel.at = "done" =>
    /\ \A i \in 1..Len(sel.selected) :
         \E n \in Range(AllNodes(tree)) : n.url = sel.selected[i]
    /\ \A i \in 1..Len(SelectedDataset.capturedUrlSet) :
         AttachedIn(SelectedDataset.tree, SelectedDataset.capturedUrlSet[i])

\* C39: a selected URL is the base URL or a parseable input URL; it is the
\* url of a node of the tree, and its screenshot is attached in the persisted
\* tree, exactly when it is the base URL or the first input URL of a path of
\* at least one segment
C39_SelectedNodeUrls ==
  sel.at = "done" =>
    /\ SelectedDataset.capturedUrlSet = sel.selected
    /\ SelectedDataset.tree.url = baseUrl
    /\ \A i \in 1..Len(sel.selected) :
         LET u == sel.selected[i]
         IN /\ u = baseUrl \/ u \in Range(parsedUrls)
            /\ (\E n \in Range(AllNodes(tree)) : n.url = u)
                 <=> (u = baseUrl \/ (Depth(u) > 0 /\ FirstOfPath(u)))
            /\ AttachedIn(SelectedDataset.tree, u)
                 <=> (u = baseUrl \/ (Depth(u) > 0 /\ FirstOfPath(u)))

\* the selection of an input with the homepage and two URL strings of one
\* path: the homepage and the second string are selected and are no node's url
C39_Witness ==
  /\ sel.at = "done"
  /\ Homepage \in Range(sel.selected)
  /\ baseUrl \in Range(sel.selected)
  /\ ~AttachedIn(SelectedDataset.tree, Homepage)
  /\ \E i, j \in 1..Len(sel.selected) :
       /\ Depth(sel.selected[i]) > 0
       /\ Segments(sel.selected[i]) = Segments(sel.selected[j])
       /\ sel.selected[i] # sel.selected[j]
       /\ AttachedIn(SelectedDataset.tree, sel.selected[i])
       /\ ~AttachedIn(SelectedDataset.tree, sel.selected[j])

\* C36: after the popup entered its running state and sent start, a complete
\* or an error event is eventually delivered to it, also when the service
\* worker was busy when the start arrived
C36_StartAnswered == popup.unanswered ~> ~popup.unanswered

====
